---- MODULE Spec2Model ----
(***************************************************************************)
(* Tool registry and multi-provider LLM router of the RAG platform API     *)
(* (stacks/rag-platform/services/api): tools/create-tool.ts (createTool,   *)
(* ToolRegistry) and engine/llm-router.ts (chat and the three adapters).   *)
(*                                                                         *)
(* JavaScript runs one callback at a time: every action below is the code  *)
(* that runs between two suspension points (await), or one call made by    *)
(* another request of the same process.                                    *)
(***************************************************************************)
EXTENDS Integers, Sequences, FiniteSets, TLC

(***************************************************************************)
(* Bounds of the model.                                                    *)
(***************************************************************************)
\* registry mutations (register/unregister, global or bot-scoped) in a run
MaxRegOps == 4
\* registry mutations made by other requests around one chat turn
MaxChatRegOps == 1
\* requests in one executeMany batch
MaxCalls == 2
\* chunks one streamed response body delivers
MaxReads == 3
\* tools built and registered in a run that follows createTool
MaxCreateOps == 2
\* parameters one created tool declares
MaxParams == 2
\* getToolsForBot calls whose returned arrays are kept
MaxSnapshots == 2
\* registry mutations in a run that also takes snapshots
MaxSnapshotRegOps == 3
\* concurrent POST /documents/:id/process requests for one document
MaxRequests == 3
\* characters in a text given to chunkText
MaxTextLen == 5
\* largest options.maxChunkSize tried
MaxChunkSize == 3
\* chunks pushed before a chunkText call is cut off
MaxChunks == 6

(***************************************************************************)
(* JavaScript values, tagged by their type.                                *)
(***************************************************************************)
Str(s) == [t |-> "string", v |-> s]
Obj(s) == [t |-> "object", v |-> s]
Num(s) == [t |-> "number", v |-> s]
Null == [t |-> "null", v |-> ""]
Undefined == [t |-> "undefined", v |-> ""]

\* ToBoolean: what `a || b` and `if (a)` test
Truthy(x) ==
  CASE x.t = "string" -> x.v /= ""
    [] x.t = "number" -> x.v /= "0"
    [] x.t = "object" -> TRUE
    [] OTHER -> FALSE

\* a == null: what `a ?? b` tests
Nullish(x) == x.t \in {"null", "undefined"}

\* a || b
OrElse(a, b) == IF Truthy(a) THEN a ELSE b

\* a ?? b
Coalesce(a, b) == IF Nullish(a) THEN b ELSE a

\* JSON.stringify(x): a string is quoted, undefined has no JSON text
JSONstringify(x) ==
  CASE x.t = "string" -> Str("\"" \o x.v \o "\"")
    [] x.t = "null" -> Str("null")
    [] x.t = "undefined" -> Undefined
    [] OTHER -> Str(x.v)

(***************************************************************************)
(* Tools, agents and requests.                                             *)
(***************************************************************************)
\* definition.name of the tools that get registered
ToolNames == {"search_documents", "get_current_time"}
\* distinct Tool objects that carry the same definition.name
ToolImpls == {"builtin", "custom"}
Tools == [name : ToolNames, impl : ToolImpls]
\* `undefined` where a Tool is expected
NoTool == [name |-> "", impl |-> ""]

\* bot ids that own private tools
BotIds == {"A", "B"}
\* an omitted botId argument
NoBotId == "<undefined>"
\* what a caller may pass as botId: an id, the empty string, or nothing
BotArgs == BotIds \cup {"", NoBotId}
\* `if (botId)` on an optional string
TruthyId(botId) == botId /= NoBotId /\ botId /= ""

\* what a handler invocation does: resolve with a value, or reject
Return(x) == [kind |-> "return", isError |-> FALSE, val |-> x]
ThrowError(msg) == [kind |-> "throw", isError |-> TRUE, val |-> Str(msg)]
ThrowValue(x) == [kind |-> "throw", isError |-> FALSE, val |-> x]
NoOutcome == [kind |-> "none", isError |-> FALSE, val |-> Undefined]
Outcomes ==
  { Return(Obj("{data}")), Return(Num("0")), Return(Null), Return(Undefined),
    ThrowError("boom"), ThrowError(""), ThrowValue(Str("oops")) }

\* sequences over S of length at most n
RECURSIVE SeqsUpTo(_, _)
SeqsUpTo(S, n) ==
  IF n = 0 THEN {<<>>}
  ELSE LET shorter == SeqsUpTo(S, n - 1)
       IN shorter \cup {Append(s, x) : s \in {q \in shorter : Len(q) = n - 1}, x \in S}

VARIABLES
  globalTools,   \* Map name -> Tool, as its entries in insertion order
  botTools,      \* Map botId -> (Map name -> Tool)
  registered,    \* history: per scope and name, the tool last registered and not removed
  nops,          \* registry mutations so far
  op,            \* the call in flight: "none", "execute", "executeMany", "chat"
  pc,            \* where that call is suspended
  slots,         \* one entry per execute() started by the call in flight
  order,         \* indices of slots, in the order their promises settled
  returned,      \* what the call in flight returned or threw
  cfg,           \* chat: config.provider, the credential, options.tools, options.toolContext
  sent,          \* chat: the provider requests issued so far
  first,         \* chat: the provider's response to the first request
  second,        \* chat: the provider's response to the second request
  toolResults,   \* chat: what `await toolRegistry.executeMany(...)` gave
  reads,         \* history: registry reads made by the chat / chatStream call
  stream,        \* chatStream: the reader, buffer, lines left and fullContent
  yielded,       \* chatStream: the fragments the consumer has received
  arrived,       \* history: everything the response body has delivered
  wrapped,       \* one call of a created tool's wrappedHandler through execute
  documents,     \* the documents collection and the process requests in flight
  chunker,       \* one chunkText call: its input, its loop variables, its output
  deleted,       \* what the last unregister / unregisterForBot call returned
  snapshots      \* the arrays getToolsForBot has returned to its callers

regVars == <<globalTools, botTools, registered, nops>>
streamVars == <<stream, yielded, arrived>>
chatVars == <<cfg, sent, first, second, toolResults, reads, stream, yielded, arrived>>
callVars ==
  <<op, pc, slots, order, returned, cfg, sent, first, second, toolResults,
    reads, stream, yielded, arrived>>
toolVars == <<wrapped, documents, chunker>>
auxVars == <<wrapped, documents, chunker, deleted, snapshots>>
vars ==
  <<globalTools, botTools, registered, nops, op, pc, slots, order, returned,
    cfg, sent, first, second, toolResults, reads, stream, yielded, arrived,
    wrapped, documents, chunker, deleted, snapshots>>

(***************************************************************************)
(* Map: entries in insertion order, keyed by definition.name.              *)
(***************************************************************************)
MapHas(m, k) == \E i \in 1..Len(m) : m[i].name = k

MapGet(m, k) ==
  IF MapHas(m, k) THEN m[CHOOSE i \in 1..Len(m) : m[i].name = k] ELSE NoTool

\* set keeps the position of an existing key and appends a new one
MapSet(m, tool) ==
  IF MapHas(m, tool.name)
  THEN [i \in 1..Len(m) |-> IF m[i].name = tool.name THEN tool ELSE m[i]]
  ELSE Append(m, tool)

MapDelete(m, k) == SelectSeq(m, LAMBDA e : e.name /= k)

RECURSIVE MapSetAll(_, _)
MapSetAll(m, src) ==
  IF src = <<>> THEN m ELSE MapSetAll(MapSet(m, Head(src)), Tail(src))

\* the scope of the global map in the history variable
GlobalScope == "<global>"
Scopes == BotIds \cup {GlobalScope}

(***************************************************************************)
(* ToolRegistry                                                            *)
(***************************************************************************)
register(tool) ==
  /\ globalTools' = MapSet(globalTools, tool)
  /\ registered' = [registered EXCEPT ![GlobalScope][tool.name] = tool]
  /\ nops' = nops + 1
  /\ UNCHANGED <<auxVars, botTools, callVars>>

registerForBot(botId, tool) ==
  /\ LET botToolMap == IF botId \in DOMAIN botTools THEN botTools[botId] ELSE <<>>
     IN botTools' = [b \in DOMAIN botTools \cup {botId} |->
                       IF b = botId THEN MapSet(botToolMap, tool) ELSE botTools[b]]
  /\ registered' = [registered EXCEPT ![botId][tool.name] = tool]
  /\ nops' = nops + 1
  /\ UNCHANGED <<auxVars, globalTools, callVars>>

\* this.globalTools.delete(toolName): true when the map held the key
unregisterReturn(toolName) == MapHas(globalTools, toolName)

unregister(toolName) ==
  /\ globalTools' = MapDelete(globalTools, toolName)
  /\ deleted' = unregisterReturn(toolName)
  /\ registered' = [registered EXCEPT ![GlobalScope][toolName] = NoTool]
  /\ nops' = nops + 1
  /\ UNCHANGED <<toolVars, snapshots, botTools, callVars>>

unregisterForBotReturn_TrueWithoutMap(botId, toolName) ==
  botId \in DOMAIN botTools => MapHas(botTools[botId], toolName)

\* `if (!botToolMap) return false; return botToolMap.delete(toolName)`
unregisterForBotReturn(botId, toolName) ==
  botId \in DOMAIN botTools /\ MapHas(botTools[botId], toolName)

unregisterForBot(botId, toolName) ==
  /\ botTools' = IF botId \in DOMAIN botTools
                 THEN [botTools EXCEPT ![botId] = MapDelete(@, toolName)]
                 ELSE botTools
  /\ deleted' = unregisterForBotReturn(botId, toolName)
  /\ registered' = [registered EXCEPT ![botId][toolName] = NoTool]
  /\ nops' = nops + 1
  /\ UNCHANGED <<toolVars, snapshots, globalTools, callVars>>

\* clear(): both maps emptied, no agent keeps a private map
clear ==
  /\ globalTools' = <<>>
  /\ botTools' = <<>>
  /\ registered' = [s \in Scopes |-> [n \in ToolNames |-> NoTool]]
  /\ nops' = nops + 1
  /\ UNCHANGED <<auxVars, callVars>>

get_GlobalFirst(toolName, botId) ==
  IF MapHas(globalTools, toolName) THEN MapGet(globalTools, toolName)
  ELSE IF TruthyId(botId) /\ botId \in DOMAIN botTools
       THEN MapGet(botTools[botId], toolName)
       ELSE NoTool

\* bot-specific tools take precedence
get(toolName, botId) ==
  IF /\ TruthyId(botId)
     /\ botId \in DOMAIN botTools
     /\ MapHas(botTools[botId], toolName)
  THEN MapGet(botTools[botId], toolName)
  ELSE MapGet(globalTools, toolName)

getToolsForBot(botId) ==
  LET tools == MapSetAll(<<>>, globalTools)
  IN IF botId \in DOMAIN botTools THEN MapSetAll(tools, botTools[botId]) ELSE tools

arrayFrom_LiveView(botId, values) == [live |-> TRUE, botId |-> botId, items |-> values]

\* Array.from(tools.values()): a new array over the values of the local map
arrayFrom(botId, values) == [live |-> FALSE, botId |-> botId, items |-> values]

\* what a caller that holds a returned array reads from it now
itemsOf(array) == IF array.live THEN getToolsForBot(array.botId) ELSE array.items

\* a caller calls getToolsForBot(botId) and keeps the array it returns
getToolsForBotCall(botId) ==
  /\ Len(snapshots) < MaxSnapshots
  /\ snapshots' = Append(snapshots,
                         [at |-> nops, returned |-> getToolsForBot(botId),
                          array |-> arrayFrom(botId, getToolsForBot(botId))])
  /\ UNCHANGED <<regVars, callVars, toolVars, deleted>>

(***************************************************************************)
(* createTool                                                              *)
(***************************************************************************)
\* the characters of [a-z] and [0-9] that the names below use
Lower == {"a", "e", "g", "i", "l", "m", "o", "t"}
Digit == {"2"}

\* the characters of the names a caller may give a tool
Chars(name) ==
  CASE name = "get_time" -> <<"g", "e", "t", "_", "t", "i", "m", "e">>
    [] name = "tool2" -> <<"t", "o", "o", "l", "2">>
    [] name = "a" -> <<"a">>
    [] name = "getTime" -> <<"g", "e", "t", "T", "i", "m", "e">>
    [] name = "2tool" -> <<"2", "t", "o", "o", "l">>
    [] name = "get-time" -> <<"g", "e", "t", "-", "t", "i", "m", "e">>
    [] name = "_tool" -> <<"_", "t", "o", "o", "l">>
    [] OTHER -> <<>>

CreateNames == {"get_time", "tool2", "a", "getTime", "2tool", "get-time", "_tool", ""}

\* /^[a-z][a-z0-9_]*$/.test(name)
validName(name) ==
  LET cs == Chars(name)
  IN /\ Len(cs) >= 1
     /\ cs[1] \in Lower
     /\ \A i \in 2..Len(cs) : cs[i] \in Lower \cup Digit \cup {"_"}

\* the naming-convention error createTool throws, or Undefined
createToolError(name) ==
  IF validName(name) THEN Undefined
  ELSE Str("Invalid tool name \"" \o name \o "\". Must start with lowercase letter and contain only lowercase letters, numbers, and underscores.")

\* the Tool createTool returns for a name it accepts
createTool(name) == [name |-> name, impl |-> "createTool"]

\* a Tool written as an object literal, without createTool
LiteralTools == [name : CreateNames, impl : {"literal"}]

(***************************************************************************)
(* ToolRegistry.execute / executeMany                                      *)
(***************************************************************************)
Requests == [name : ToolNames]
Contexts == [botId : BotIds]

ToolCallResult(n, r, e) == [name |-> n, result |-> r, error |-> e]
NoResult == ToolCallResult("", Undefined, Undefined)

Fulfilled(res) == [st |-> "fulfilled", res |-> res, err |-> Undefined]
Rejected(e) == [st |-> "rejected", res |-> NoResult, err |-> e]
Pending == [st |-> "pending", res |-> NoResult, err |-> Undefined]

executeLookup_GlobalOnly(request, context) == get(request.name, NoBotId)

\* the first statement of execute: the lookup, scoped to context.botId
executeLookup(request, context) == get(request.name, context.botId)

executeSettle_NoCatch(request, tool, outcome) ==
  IF tool = NoTool
  THEN Fulfilled(ToolCallResult(request.name, Null,
                                Str("Tool not found: " \o request.name)))
  ELSE IF outcome.kind = "return"
       THEN Fulfilled(ToolCallResult(request.name, outcome.val, Undefined))
       ELSE Rejected(outcome.val)

executeSettle_NullIsFailure(request, tool, outcome) ==
  IF tool = NoTool
  THEN Fulfilled(ToolCallResult(request.name, Null,
                                Str("Tool not found: " \o request.name)))
  ELSE IF outcome.kind = "return" /\ ~Nullish(outcome.val)
       THEN Fulfilled(ToolCallResult(request.name, outcome.val, Undefined))
       ELSE LET message == IF outcome.isError THEN outcome.val
                           ELSE Str("Unknown error")
            IN Fulfilled(ToolCallResult(request.name, Null, message))

\* the promise execute returns, once the handler (if any) has settled
executeSettle(request, tool, outcome) ==
  IF tool = NoTool
  THEN Fulfilled(ToolCallResult(request.name, Null,
                                Str("Tool not found: " \o request.name)))
  ELSE IF outcome.kind = "return"
       THEN Fulfilled(ToolCallResult(request.name, outcome.val, Undefined))
       ELSE LET message == IF outcome.isError THEN outcome.val
                           ELSE Str("Unknown error")
            IN Fulfilled(ToolCallResult(request.name, Null, message))

\* execute up to its first await: the lookup, and the handler invocation
executeStart(request, context) ==
  LET tool == executeLookup(request, context)
  IN [request |-> request, tool |-> tool, outcome |-> NoOutcome,
      promise |-> IF tool = NoTool THEN executeSettle(request, tool, NoOutcome)
                  ELSE Pending]

\* requests.map((req) => this.execute(req, context)): all started in one go
executeManyStart(requests, context) ==
  [i \in 1..Len(requests) |-> executeStart(requests[i], context)]

Settled(ss) == {i \in 1..Len(ss) : ss[i].promise.st /= "pending"}

\* indices already settled when the batch is started, in index order
RECURSIVE SettledAtStart(_, _)
SettledAtStart(ss, i) ==
  IF i > Len(ss) THEN <<>>
  ELSE (IF ss[i].promise.st /= "pending" THEN <<i>> ELSE <<>>)
       \o SettledAtStart(ss, i + 1)

promiseAll_CompletionOrder(ss) == [i \in 1..Len(ss) |-> ss[order[i]].promise.res]

\* Promise.all: the values of the promises, by index
promiseAll(ss) == [i \in 1..Len(ss) |-> ss[i].promise.res]

NoReturn ==
  [kind |-> "none", result |-> NoResult, results |-> <<>>, error |-> Undefined,
   content |-> "", hasToolCalls |-> FALSE, toolCalls |-> <<>>,
   hasToolResults |-> FALSE, toolResults |-> <<>>]

\* toolRegistry.execute(request, context), called directly
executeCall(request, context) ==
  /\ op = "none"
  /\ op' = "execute"
  /\ pc' = "exec"
  /\ slots' = <<executeStart(request, context)>>
  /\ order' = SettledAtStart(slots', 1)
  /\ UNCHANGED <<auxVars, regVars, chatVars, returned>>

\* toolRegistry.executeMany(requests, context), called directly
executeManyCall(requests, context) ==
  /\ op = "none"
  /\ op' = "executeMany"
  /\ pc' = "exec"
  /\ slots' = executeManyStart(requests, context)
  /\ order' = SettledAtStart(slots', 1)
  /\ UNCHANGED <<auxVars, regVars, chatVars, returned>>

\* a handler's promise settles; execute resumes after `await tool.handler(...)`
handlerSettles(i, outcome) ==
  /\ pc = "exec"
  /\ i \in 1..Len(slots)
  /\ slots[i].promise.st = "pending"
  /\ slots' = [slots EXCEPT ![i].outcome = outcome,
                            ![i].promise = executeSettle(slots[i].request, slots[i].tool, outcome)]
  /\ order' = Append(order, i)
  /\ UNCHANGED <<auxVars, regVars, chatVars, op, pc, returned>>

\* the caller of execute resumes
executeReturns ==
  /\ op = "execute"
  /\ pc = "exec"
  /\ slots[1].promise.st /= "pending"
  /\ returned' = IF slots[1].promise.st = "fulfilled"
                 THEN [NoReturn EXCEPT !.kind = "result", !.result = slots[1].promise.res]
                 ELSE [NoReturn EXCEPT !.kind = "throw", !.error = slots[1].promise.err]
  /\ pc' = "done"
  /\ UNCHANGED <<auxVars, regVars, chatVars, op, slots, order>>

\* the rejection Promise.all passes on: the first one in time
FirstRejection(ss) ==
  LET rej == {j \in 1..Len(order) : ss[order[j]].promise.st = "rejected"}
  IN ss[order[CHOOSE j \in rej : \A k \in rej : j <= k]].promise.err

\* Promise.all has settled: every promise fulfilled, or one rejected
promiseAllSettled(ss) ==
  \/ \A i \in 1..Len(ss) : ss[i].promise.st = "fulfilled"
  \/ \E i \in 1..Len(ss) : ss[i].promise.st = "rejected"

\* the caller of executeMany resumes: with all the values, or the first rejection
executeManyReturns ==
  /\ op = "executeMany"
  /\ pc = "exec"
  /\ promiseAllSettled(slots)
  /\ returned' = IF \A i \in 1..Len(slots) : slots[i].promise.st = "fulfilled"
                 THEN [NoReturn EXCEPT !.kind = "results", !.results = promiseAll(slots)]
                 ELSE [NoReturn EXCEPT !.kind = "throw", !.error = FirstRejection(slots)]
  /\ pc' = "done"
  /\ UNCHANGED <<auxVars, regVars, chatVars, op, slots, order>>

(***************************************************************************)
(* llm-router.ts: chat and the three provider adapters                     *)
(***************************************************************************)
Providers == {"vertex", "openai", "anthropic"}
\* a config.provider outside the LLMProvider type
UnknownProvider == "other"

\* config.provider left out
NoProvider == "<undefined>"

providerOf_DefaultOpenAI(c) == IF c.provider = NoProvider THEN "openai" ELSE c.provider

\* const { provider = 'vertex' } = config: the default replaces undefined only
providerOf(c) == IF c.provider = NoProvider THEN "vertex" ELSE c.provider

\* cfg.ctx is options.toolContext.botId, or NoBotId without a toolContext;
\* cfg.hasKey: config.apiKey is set (for vertex: GCP_PROJECT_ID is)
NoConfig == [provider |-> "", hasKey |-> FALSE, tools |-> FALSE, ctx |-> NoBotId]
\* the bot whose chat turn is followed
ChatBot == "A"
Configs ==
  [provider : Providers \cup {UnknownProvider}, hasKey : BOOLEAN,
   tools : BOOLEAN, ctx : {ChatBot, NoBotId}]

\* a content block of a provider response: text, or a tool invocation
\* (functionCall part / tool_calls entry / tool_use block) with its id
TextBlock(text) == [type |-> "text", val |-> text, id |-> 0]
ToolBlock(name, id) == [type |-> "tool", val |-> name, id |-> id]

\* a provider response: a non-success status with its raw error payload, a
\* success without candidates/choices/content, or a success with blocks;
\* emptyToolCalls: the message has a tool_calls field holding an empty list
NoResponse == [status |-> "none", blocks |-> <<>>, emptyToolCalls |-> FALSE, payload |-> ""]
ErrorResponse == [NoResponse EXCEPT !.status = "error", !.payload = "{error}"]
\* a non-success response whose body is not JSON (a gateway's plain text)
PlainErrorResponse == [NoResponse EXCEPT !.status = "error", !.payload = "upstream failure"]
\* response.json() parses the body: the provider's own bodies are JSON objects
isJson(payload) == payload /= "upstream failure"
EmptyResponse == [NoResponse EXCEPT !.status = "empty"]
OkResponse(blocks, emptyToolCalls) ==
  [NoResponse EXCEPT !.status = "ok", !.blocks = blocks, !.emptyToolCalls = emptyToolCalls]

\* give every tool block of a response its own id
WithIds(kinds, text) ==
  [i \in 1..Len(kinds) |->
     IF kinds[i] = "text" THEN TextBlock(text) ELSE ToolBlock(kinds[i], i)]

ToolBlocks(resp) == SelectSeq(resp.blocks, LAMBDA b : b.type = "tool")

\* the shapes of a first response: text only, one call (alone or after
\* text), two calls of different tools, two calls of the same tool
FirstShapes ==
  { <<>>, <<"text">>, <<"get_current_time">>, <<"text", "get_current_time">>,
    <<"get_current_time", "search_documents">>,
    <<"get_current_time", "get_current_time">> }

FirstResponses ==
  {ErrorResponse, EmptyResponse}
  \cup {OkResponse(WithIds(kinds, "hi"), FALSE) : kinds \in FirstShapes}
  \cup {OkResponse(blocks, TRUE) : blocks \in {<<>>, <<TextBlock("hi")>>}}

\* the shapes of a second response: no text, text, another call before text
SecondShapes == { <<>>, <<"text">>, <<"get_current_time", "text">> }

SecondResponses ==
  {ErrorResponse, PlainErrorResponse}
  \cup {OkResponse(WithIds(kinds, "final"), FALSE) : kinds \in SecondShapes}

\* the provider request: the declared tools (the field is attached only when
\* the list is not empty), and in the second request the assistant turn and
\* the tool-result entries
Request_EmptyToolsArray(tools, assistant, entries) ==
  [hasTools |-> TRUE, tools |-> tools, assistant |-> assistant, entries |-> entries]

\* if (tools.length > 0) body.tools = tools
Request(tools, assistant, entries) ==
  [hasTools |-> Len(tools) > 0, tools |-> tools,
   assistant |-> assistant, entries |-> entries]

\* options.tools && options.toolContext ? getToolsForBot(botId) : []
declaredTools(c) ==
  IF c.tools /\ c.ctx /= NoBotId THEN getToolsForBot(c.ctx) ELSE <<>>

\* registry reads made to declare the tools: one getToolsForBot, or none
declaredToolsReads(c) == IF c.tools /\ c.ctx /= NoBotId THEN 1 ELSE 0

\* the canonical ToolCallRequest of each tool-invocation block
toolCallsOf(resp) ==
  LET bs == ToolBlocks(resp) IN [i \in 1..Len(bs) |-> [name |-> bs[i].val]]

\* whether the adapter takes the tool branch on the first response
vertexTakesToolBranch(resp, c) == Len(ToolBlocks(resp)) > 0 /\ c.ctx /= NoBotId

\* choice.message?.tool_calls && options.toolContext: an empty list is truthy
openaiTakesToolBranch(resp, c) ==
  (Len(ToolBlocks(resp)) > 0 \/ resp.emptyToolCalls) /\ c.ctx /= NoBotId

anthropicTakesToolBranch(resp, c) == Len(ToolBlocks(resp)) > 0 /\ c.ctx /= NoBotId

takesToolBranch(resp, c) ==
  CASE providerOf(c) = "vertex" -> vertexTakesToolBranch(resp, c)
    [] providerOf(c) = "openai" -> openaiTakesToolBranch(resp, c)
    [] OTHER -> anthropicTakesToolBranch(resp, c)

\* the text of the first block that is text, or ""
FindText(resp) ==
  LET ts == SelectSeq(resp.blocks, LAMBDA b : b.type = "text")
  IN IF Len(ts) > 0 THEN ts[1].val ELSE ""

\* the text of block 0 when that is text, or ""
HeadText(resp) ==
  IF Len(resp.blocks) > 0 /\ resp.blocks[1].type = "text" THEN resp.blocks[1].val ELSE ""

\* the content of the ChatResult of a response without tool calls
directContent(resp, c) == FindText(resp)

\* the content taken from the second response
vertexFinalContent(resp) == HeadText(resp)
openaiFinalContent(resp) == IF resp.status = "ok" THEN FindText(resp) ELSE ""
anthropicFinalContent(resp) == IF resp.status = "ok" THEN FindText(resp) ELSE ""

finalContent(resp, c) ==
  CASE providerOf(c) = "vertex" -> vertexFinalContent(resp)
    [] providerOf(c) = "openai" -> openaiFinalContent(resp)
    [] OTHER -> anthropicFinalContent(resp)

\* the tool-result entry sent back for one call
vertexEntry(block, tr) ==
  [id |-> 0, name |-> tr.name, content |-> OrElse(tr.error, tr.result)]
openaiEntry(block, tr) ==
  [id |-> block.id, name |-> "", content |-> JSONstringify(OrElse(tr.error, tr.result))]
anthropicEntry(block, tr) ==
  [id |-> block.id, name |-> "", content |-> JSONstringify(OrElse(tr.error, tr.result))]

toolResultEntries(resp, results, c) ==
  LET bs == ToolBlocks(resp)
  IN [i \in 1..Len(results) |->
        CASE providerOf(c) = "vertex" -> vertexEntry(bs[i], results[i])
          [] providerOf(c) = "openai" -> openaiEntry(bs[i], results[i])
          [] OTHER -> anthropicEntry(bs[i], results[i])]

\* the error thrown for a non-success status, carrying the raw payload
providerError(resp, c) ==
  CASE providerOf(c) = "vertex" -> Str("Vertex AI error: " \o resp.payload)
    [] providerOf(c) = "openai" -> Str("OpenAI API error: " \o resp.payload)
    [] OTHER -> Str("Anthropic API error: " \o resp.payload)

configError_NoKeyCheck(c) ==
  IF providerOf(c) \notin Providers
  THEN Str("Unknown LLM provider: " \o providerOf(c)) ELSE Undefined

\* the error thrown before any request is made, or Undefined
configError(c) ==
  CASE providerOf(c) \notin Providers -> Str("Unknown LLM provider: " \o providerOf(c))
    [] providerOf(c) = "vertex" /\ ~c.hasKey ->
         Str("GCP_PROJECT_ID environment variable is required for Vertex AI")
    [] providerOf(c) = "openai" /\ ~c.hasKey -> Str("OpenAI API key is required")
    [] providerOf(c) = "anthropic" /\ ~c.hasKey -> Str("Anthropic API key is required")
    [] OTHER -> Undefined

\* the error thrown for a success without candidates / choices, or Undefined
noChoiceError(resp, c) ==
  CASE resp.status = "empty" /\ providerOf(c) = "vertex" -> Str("No response generated")
    [] resp.status = "empty" /\ providerOf(c) = "openai" -> Str("No response from OpenAI")
    [] OTHER -> Undefined

Thrown(e) == [NoReturn EXCEPT !.kind = "throw", !.error = e]

\* return { content }
ChatResultText(content) == [NoReturn EXCEPT !.kind = "chat", !.content = content]

ChatResultWithTools_NoToolCalls(content, calls, results) ==
  [NoReturn EXCEPT !.kind = "chat", !.content = content,
                   !.hasToolResults = TRUE, !.toolResults = results]

\* return { content, toolCalls, toolResults }
ChatResultWithTools(content, calls, results) ==
  [NoReturn EXCEPT !.kind = "chat", !.content = content,
                   !.hasToolCalls = TRUE, !.toolCalls = calls,
                   !.hasToolResults = TRUE, !.toolResults = results]

\* chat(message, config, options) up to its first await: the credential
\* check, the tool declarations and the first provider request
chat(c) ==
  /\ op = "none"
  /\ op' = "chat"
  /\ cfg' = c
  /\ IF configError(c) /= Undefined
     THEN /\ returned' = Thrown(configError(c))
          /\ pc' = "done"
          /\ sent' = sent
          /\ reads' = reads
     ELSE /\ sent' = <<Request(declaredTools(c), <<>>, <<>>)>>
          /\ reads' = reads + declaredToolsReads(c)
          /\ pc' = "await1"
          /\ returned' = returned
  /\ UNCHANGED <<auxVars, regVars, slots, order, first, second, toolResults, streamVars>>

\* the first response arrives: the adapter throws, returns the text, or
\* starts every requested tool call through executeMany
firstResponse(resp) ==
  /\ op = "chat"
  /\ pc = "await1"
  /\ first' = resp
  /\ IF resp.status = "error"
     THEN /\ returned' = Thrown(providerError(resp, cfg))
          /\ pc' = "done"
          /\ UNCHANGED <<slots, order, reads>>
     ELSE IF noChoiceError(resp, cfg) /= Undefined
     THEN /\ returned' = Thrown(noChoiceError(resp, cfg))
          /\ pc' = "done"
          /\ UNCHANGED <<slots, order, reads>>
     ELSE IF takesToolBranch(resp, cfg)
     THEN /\ slots' = executeManyStart(toolCallsOf(resp), [botId |-> cfg.ctx])
          /\ order' = SettledAtStart(slots', 1)
          /\ reads' = reads + Len(slots')
          /\ pc' = "exec"
          /\ returned' = returned
     ELSE /\ returned' = ChatResultText(directContent(resp, cfg))
          /\ pc' = "done"
          /\ UNCHANGED <<slots, order, reads>>
  /\ UNCHANGED <<auxVars, regVars, op, cfg, sent, second, toolResults, streamVars>>

\* the tools of the second request: Vertex keeps the model it configured
\* and Anthropic spreads the first body; OpenAI builds a body without tools
secondRequestTools(c) == IF providerOf(c) = "openai" THEN <<>> ELSE sent[1].tools

\* executeMany has resolved: the adapter builds the tool-result entries and
\* issues the second request
sendToolResults ==
  /\ op = "chat"
  /\ pc = "exec"
  /\ promiseAllSettled(slots)
  /\ IF \A i \in 1..Len(slots) : slots[i].promise.st = "fulfilled"
     THEN /\ toolResults' = promiseAll(slots)
          /\ sent' = Append(sent, Request(secondRequestTools(cfg), first.blocks,
                                          toolResultEntries(first, toolResults', cfg)))
          /\ pc' = "await2"
          /\ returned' = returned
     ELSE /\ returned' = Thrown(FirstRejection(slots))
          /\ pc' = "done"
          /\ UNCHANGED <<toolResults, sent>>
  /\ UNCHANGED <<auxVars, regVars, op, cfg, slots, order, first, second, reads, streamVars>>

\* the Vertex SDK rejects sendMessage on a non-success status
vertexSecondThrows(resp) == resp.status = "error"
\* finalResponse.ok is not looked at; `await finalResponse.json()` rejects
\* when the body is not JSON
openaiSecondThrows(resp) == resp.status = "error" /\ ~isJson(resp.payload)
anthropicSecondThrows(resp) == resp.status = "error" /\ ~isJson(resp.payload)

secondThrows(resp, c) ==
  CASE providerOf(c) = "vertex" -> vertexSecondThrows(resp)
    [] providerOf(c) = "openai" -> openaiSecondThrows(resp)
    [] OTHER -> anthropicSecondThrows(resp)

\* payload.charAt(0) of the bodies that are not JSON
charAt0(payload) == IF payload = "upstream failure" THEN "u" ELSE ""

\* the SyntaxError of response.json() on a body that is not JSON, as the
\* runtime of the deployment (nodejs20) words it
jsonSyntaxError(payload) ==
  Str("Unexpected token '" \o charAt0(payload) \o "', \"" \o payload
      \o "\" is not valid JSON")

\* what the second round trip throws: the SDK's error, or the SyntaxError
secondError(resp, c) ==
  IF providerOf(c) = "vertex" THEN providerError(resp, c)
  ELSE jsonSyntaxError(resp.payload)

\* the second response arrives: its text is the content of the ChatResult
secondResponse_Loops(resp) ==
  /\ op = "chat"
  /\ pc = "await2"
  /\ second' = resp
  /\ IF ~secondThrows(resp, cfg) /\ Len(ToolBlocks(resp)) > 0
     THEN /\ slots' = executeManyStart(toolCallsOf(resp), [botId |-> cfg.ctx])
          /\ order' = SettledAtStart(slots', 1)
          /\ pc' = "exec"
          /\ returned' = returned
     ELSE /\ returned' = IF secondThrows(resp, cfg)
                         THEN Thrown(secondError(resp, cfg))
                         ELSE ChatResultWithTools(finalContent(resp, cfg),
                                                  toolCallsOf(first), toolResults)
          /\ pc' = "done"
          /\ UNCHANGED <<slots, order>>
  /\ UNCHANGED <<auxVars, regVars, op, cfg, sent, first, toolResults, reads, streamVars>>

\* the response to the follow-up request: its text is the answer of the turn
secondResponse(resp) ==
  /\ op = "chat"
  /\ pc = "await2"
  /\ second' = resp
  /\ returned' = IF secondThrows(resp, cfg)
                 THEN Thrown(secondError(resp, cfg))
                 ELSE ChatResultWithTools(finalContent(resp, cfg),
                                          toolCallsOf(first), toolResults)
  /\ pc' = "done"
  /\ UNCHANGED <<auxVars, regVars, op, cfg, slots, order, sent, first, toolResults, reads, streamVars>>

(***************************************************************************)
(* llm-router.ts: chatStream and the three streaming adapters              *)
(***************************************************************************)
\* reader: "none", "open" (getReader() / the SDK stream being iterated),
\* "ended" (the body reported done or failed), "closed" (the iterator was
\* closed); buffer: the text after the last newline; lines: the lines of the
\* current `for` loop not looked at yet; nread: chunks read; last: how the
\* latest read settled
NoStream ==
  [reader |-> "none", buffer |-> <<>>, lines |-> <<>>, fullContent |-> "",
   nread |-> 0, last |-> "none"]

\* the pieces a streamed body is made of: the `data: ` prefix, a newline, a
\* JSON payload (OpenAI: choices[0].delta.content = text; Anthropic: type and
\* delta.text = text), text that is not JSON, the [DONE] mark, an `event:` line
Piece(k, type, text) == [k |-> k, type |-> type, text |-> text]
DataPrefix == Piece("data", "", Undefined)
Newline == Piece("nl", "", Undefined)
Json(type, text) == Piece("json", type, text)
BadJson == Piece("bad", "", Undefined)
DoneMark == Piece("done", "", Undefined)
EventLine == Piece("event", "", Undefined)
\* parts[0] of the first candidate of a Vertex chunk: text or a functionCall
Part(type, text) == Piece("part", type, text)

Line(payload) == <<DataPrefix, payload, Newline>>
Delta == "content_block_delta"

\* what one reader.read() may deliver for OpenAI and Anthropic: a record, two
\* records, a record cut before its newline, a lone newline, records with
\* empty or no text, a record of another type, a malformed record, [DONE],
\* an event line
SSEChunks ==
  { Line(Json(Delta, Str("Hel"))),
    Line(Json(Delta, Str("lo"))) \o Line(Json(Delta, Str(" world"))),
    <<DataPrefix, Json(Delta, Str("Hel"))>>,
    <<Newline>>,
    Line(Json(Delta, Str(""))),
    Line(Json(Delta, Undefined)),
    Line(Json("message_start", Undefined)),
    Line(BadJson),
    Line(DoneMark),
    <<EventLine, Newline>> }

\* what one step of the Vertex stream may deliver: a chunk whose first part
\* is text, empty text or a functionCall, or a chunk without candidates
VertexChunks ==
  { <<Part("text", Str("Hel"))>>, <<Part("text", Str("lo"))>>,
    <<Part("text", Str(""))>>, <<Part("functionCall", Undefined)>>, <<>> }

Chunks(c) == IF providerOf(c) = "vertex" THEN VertexChunks ELSE SSEChunks

\* the outcome of `await reader.read()` / of one step of `for await`
ReadChunk(value) == [kind |-> "chunk", value |-> value]
ReadDone == [kind |-> "done", value |-> <<>>]
ReadError == [kind |-> "error", value |-> <<>>]
ReadResults(c) == {ReadChunk(v) : v \in Chunks(c)} \cup {ReadDone, ReadError}

\* the responses to the streaming request: a non-success status, a success
\* without a body, a success whose body is then read
NoBodyResponse == [NoResponse EXCEPT !.status = "nobody"]
StreamResponses == {ErrorResponse, NoBodyResponse, OkResponse(<<>>, FALSE)}

\* buffer.split('\n')
RECURSIVE Split(_)
Split(text) ==
  IF text = <<>> THEN << <<>> >>
  ELSE LET rest == Split(Tail(text))
       IN IF Head(text).k = "nl" THEN << <<>> >> \o rest
          ELSE << <<Head(text)>> \o rest[1] >> \o Tail(rest)

\* line.startsWith('data: ')
startsWithData(line) == Len(line) > 0 /\ line[1].k = "data"

\* JSON.parse(line.slice(6)) succeeds
parses(line) == Len(line) = 2 /\ line[2].k = "json"

\* what each adapter takes from a line (Vertex: from a chunk); undefined when
\* the line is skipped or its JSON.parse threw into the empty catch
vertexFragment(chunk) ==
  IF Len(chunk) > 0 /\ chunk[1].type = "text" THEN chunk[1].text ELSE Str("")

openaiFragment(line) ==
  IF startsWithData(line) /\ line /= <<DataPrefix, DoneMark>> /\ parses(line)
  THEN line[2].text ELSE Undefined

anthropicFragment(line) ==
  IF startsWithData(line) /\ parses(line) /\ line[2].type = Delta
  THEN line[2].text ELSE Undefined

fragmentOf(line, c) ==
  CASE providerOf(c) = "vertex" -> vertexFragment(line)
    [] providerOf(c) = "openai" -> openaiFragment(line)
    [] OTHER -> anthropicFragment(line)

\* the lines left once those that yield nothing are passed: if (content)
RECURSIVE skipToYield(_, _)
skipToYield(lines, c) ==
  IF lines = <<>> THEN <<>>
  ELSE IF Truthy(fragmentOf(Head(lines), c)) THEN lines
  ELSE skipToYield(Tail(lines), c)

appendContent_Overwrite(fullContent, text) == text.v

\* fullContent += content
appendContent(fullContent, text) == fullContent \o text.v

streamRequest_WithTools(c) == Request(declaredTools(c), <<>>, <<>>)

\* the body of the streaming request: no tools whatever the options are
streamRequest(c) == Request(<<>>, <<>>, <<>>)

\* the error for a response without a body, or Undefined
noBodyError(resp, c) ==
  IF resp.status = "nobody" /\ providerOf(c) /= "vertex"
  THEN Str("No response body") ELSE Undefined

\* the generator runs on through the lines `todo` until it yields or needs
\* another read; st is the stream state it runs from
runToYield(todo, st) ==
  LET rest == skipToYield(todo, cfg)
  IN IF rest = <<>>
     THEN /\ stream' = [st EXCEPT !.lines = <<>>]
          /\ pc' = "read"
          /\ yielded' = yielded
     ELSE LET text == fragmentOf(Head(rest), cfg)
          IN /\ stream' = [st EXCEPT !.lines = Tail(rest),
                                     !.fullContent = appendContent(@, text)]
             /\ pc' = "yield"
             /\ yielded' = Append(yielded, text)

\* chatStream(message, config, options) and the consumer's first next(): the
\* generator runs up to its first await, the streaming request
chatStream(c) ==
  /\ op = "none"
  /\ op' = "chatStream"
  /\ cfg' = c
  /\ IF configError(c) /= Undefined
     THEN /\ returned' = Thrown(configError(c))
          /\ pc' = "done"
          /\ sent' = sent
     ELSE /\ sent' = <<streamRequest(c)>>
          /\ pc' = "await1"
          /\ returned' = returned
  /\ UNCHANGED <<auxVars, regVars, slots, order, first, second, toolResults, reads, streamVars>>

\* the response to the streaming request arrives: the adapter throws, or
\* takes the reader of the body
streamResponse(resp) ==
  /\ op = "chatStream"
  /\ pc = "await1"
  /\ first' = resp
  /\ IF resp.status = "error"
     THEN /\ returned' = Thrown(providerError(resp, cfg))
          /\ pc' = "done"
          /\ stream' = stream
     ELSE IF noBodyError(resp, cfg) /= Undefined
     THEN /\ returned' = Thrown(noBodyError(resp, cfg))
          /\ pc' = "done"
          /\ stream' = stream
     ELSE /\ stream' = [stream EXCEPT !.reader = "open"]
          /\ pc' = "read"
          /\ returned' = returned
  /\ UNCHANGED <<auxVars, regVars, op, cfg, slots, order, sent, second, toolResults,
                 reads, yielded, arrived>>

\* the lines to look at after a chunk, and the text kept for the next read
linesOf(value, c) ==
  IF providerOf(c) = "vertex" THEN <<value>>
  ELSE LET lines == Split(stream.buffer \o value)
       IN SubSeq(lines, 1, Len(lines) - 1)

bufferOf(value, c) ==
  IF providerOf(c) = "vertex" THEN <<>>
  ELSE LET lines == Split(stream.buffer \o value) IN lines[Len(lines)]

\* `await reader.read()` settles (Vertex: the SDK stream steps): a chunk is
\* split into lines and looked at up to the first yield, the end of the body
\* makes the generator return { content: fullContent }, a failure is thrown
streamRead(r) ==
  /\ op = "chatStream"
  /\ pc = "read"
  /\ IF r.kind = "chunk"
     THEN /\ stream.nread < MaxReads
          /\ arrived' = arrived \o r.value
          /\ runToYield(linesOf(r.value, cfg),
                        [stream EXCEPT !.buffer = bufferOf(r.value, cfg),
                                       !.nread = @ + 1, !.last = r.kind])
          /\ returned' = returned
     ELSE /\ stream' = [stream EXCEPT !.reader = "ended", !.last = r.kind]
          /\ pc' = "done"
          /\ returned' = IF r.kind = "done" THEN ChatResultText(stream.fullContent)
                         ELSE Thrown(Str("read failed"))
          /\ UNCHANGED <<yielded, arrived>>
  /\ UNCHANGED <<auxVars, regVars, op, cfg, slots, order, sent, first, second, toolResults, reads>>

\* the consumer asks for the next fragment: the generator resumes after its
\* yield, inside the loop over the lines
consumerNext ==
  /\ op = "chatStream"
  /\ pc = "yield"
  /\ runToYield(stream.lines, stream)
  /\ UNCHANGED <<auxVars, regVars, op, cfg, slots, order, sent, first, second, toolResults,
                 reads, returned, arrived>>

\* what return() on the suspended generator does to the reader: `for await`
\* closes the iterator of the Vertex stream; the while (true) loops of the
\* other two adapters have no finally, and the reader is left as it is
readerAfterReturn(c) == IF providerOf(c) = "vertex" THEN "closed" ELSE stream.reader

\* the consumer stops consuming (break out of its for await): return() is
\* called on the generator suspended at a yield
consumerReturn ==
  /\ op = "chatStream"
  /\ pc = "yield"
  /\ pc' = "stopped"
  /\ stream' = [stream EXCEPT !.reader = readerAfterReturn(cfg), !.lines = <<>>]
  /\ UNCHANGED <<auxVars, regVars, op, cfg, slots, order, sent, first, second, toolResults,
                 reads, returned, yielded, arrived>>

(***************************************************************************)
(* Building tools and registering them                                     *)
(***************************************************************************)
\* toolRegistry.register(createTool({ name, ... })): createTool throws for a
\* name it rejects and register is not reached
registerCreated(name) ==
  IF createToolError(name) = Undefined
  THEN register(createTool(name))
  ELSE /\ returned' = [returned EXCEPT !.kind = "throw", !.error = createToolError(name)]
       /\ nops' = nops + 1
       /\ UNCHANGED <<auxVars, globalTools, botTools, registered, op, pc, slots, order,
                      chatVars>>

\* toolRegistry.registerForBot(botId, createTool({ name, ... }))
registerForBotCreated(botId, name) ==
  IF createToolError(name) = Undefined
  THEN registerForBot(botId, createTool(name))
  ELSE /\ returned' = [returned EXCEPT !.kind = "throw", !.error = createToolError(name)]
       /\ nops' = nops + 1
       /\ UNCHANGED <<auxVars, globalTools, botTools, registered, op, pc, slots, order,
                      chatVars>>

(***************************************************************************)
(* createTool's wrappedHandler: validation and defaults, run by execute.   *)
(***************************************************************************)
\* keys of `parameters`, and a key the tool does not declare
ParamKeys == {"format", "timezone"}
UndeclaredKey == "extra"
ArgKeys == ParamKeys \cup {UndeclaredKey}

\* ToolParameter.enum: omitted, or an array of strings
NoEnum == [declared |-> FALSE, values |-> <<>>]
Enum(values) == [declared |-> TRUE, values |-> values]

\* ToolParameter: required, default and enum (type and description play no part)
ToolParameters ==
  [required : BOOLEAN,
   default : {Undefined, Str("iso"), Str("raw")},
   enum : {NoEnum, Enum(<<"iso", "unix">>)}]

\* Object.entries(parameters): the declared parameters in declaration order
ParameterLists ==
  {ps \in SeqsUpTo([key : ParamKeys, param : ToolParameters], MaxParams) :
     /\ Len(ps) >= 1
     /\ \A i, j \in DOMAIN ps : i /= j => ps[i].key /= ps[j].key}

\* request.arguments: an absent key reads as undefined
Arguments ==
  {a \in [ArgKeys -> {Undefined, Null, Str("unix"), Str("raw")}] :
     a[UndeclaredKey] \in {Undefined, Str("raw")}}

\* `${x}` in a template literal
TemplateString(x) ==
  CASE x.t = "null" -> "null"
    [] x.t = "undefined" -> "undefined"
    [] OTHER -> x.v

\* array.join(', ')
RECURSIVE join(_)
join(values) ==
  IF Len(values) = 0 THEN ""
  ELSE IF Len(values) = 1 THEN values[1]
  ELSE values[1] \o ", " \o join(Tail(values))

\* array.includes(value), on an array of strings
includes(values, value) == \E i \in DOMAIN values : Str(values[i]) = value

MissingMessage(key) == Str("Missing required parameter: " \o key)
InvalidMessage(key, value, enum) ==
  Str("Invalid value for " \o key \o ": \"" \o TemplateString(value)
      \o "\". Must be one of: " \o join(enum.values))

missingRequired_UnlessDefault(param, value) ==
  param.required /\ Nullish(value) /\ param.default = Undefined

\* param.required && (params[key] === undefined || params[key] === null)
missingRequired(param, value) == param.required /\ Nullish(value)

injectDefault_Never(param, value) == value

\* params[key] after `if (params[key] === undefined && param.default !== undefined)`
injectDefault(param, value) ==
  IF value = Undefined /\ param.default /= Undefined THEN param.default ELSE value

invalidEnum_Never(param, value) == FALSE

\* param.enum && params[key] !== undefined && !param.enum.includes(params[key])
invalidEnum(param, value) ==
  param.enum.declared /\ value /= Undefined /\ ~includes(param.enum.values, value)

\* the for loop of wrappedHandler from entry i on: the object as the loop
\* leaves it, and the Error it throws (undefined when it reaches the handler)
RECURSIVE validate(_, _, _)
validate(parameters, params, i) ==
  IF i > Len(parameters) THEN [params |-> params, thrown |-> Undefined]
  ELSE LET key == parameters[i].key
           param == parameters[i].param
       IN IF missingRequired(param, params[key])
          THEN [params |-> params, thrown |-> MissingMessage(key)]
          ELSE LET injected == [params EXCEPT ![key] = injectDefault(param, params[key])]
               IN IF invalidEnum(param, injected[key])
                  THEN [params |-> injected,
                        thrown |-> InvalidMessage(key, injected[key], param.enum)]
                  ELSE validate(parameters, injected, i + 1)

argumentsAfter_Copy(before, after) == before

\* request.arguments once the wrapper has run: `params` is that same object
argumentsAfter(before, after) == after

\* what the underlying handler of a created tool does
HandlerOutcomes == {Return(Obj("{data}")), ThrowError("boom")}

NoParams == [k \in ArgKeys |-> Undefined]
NoWrapped ==
  [pc |-> "none", name |-> "", parameters |-> <<>>, sent |-> NoParams,
   arguments |-> NoParams, invoked |-> 0, received |-> NoParams,
   thrown |-> Undefined, result |-> NoResult, toolCalls |-> <<>>]

\* a tool call a provider asked for, handed to execute
WrappedCall(parameters, arguments) ==
  [NoWrapped EXCEPT !.pc = "called", !.name = "get_current_time",
                    !.parameters = parameters, !.sent = arguments,
                    !.arguments = arguments]

\* execute -> tool.handler(request.arguments, context): the wrapper's loop,
\* run inside the call of execute, then either its throw, which rejects the
\* promise execute awaits, or the call of the handler
wrappedHandler ==
  /\ wrapped.pc = "called"
  /\ LET v == validate(wrapped.parameters, wrapped.arguments, 1)
     IN IF v.thrown /= Undefined
        THEN wrapped' =
               [wrapped EXCEPT
                  !.pc = "rejected",
                  !.arguments = argumentsAfter(wrapped.arguments, v.params),
                  !.thrown = v.thrown]
        ELSE wrapped' =
               [wrapped EXCEPT
                  !.pc = "running",
                  !.arguments = argumentsAfter(wrapped.arguments, v.params),
                  !.invoked = wrapped.invoked + 1,
                  !.received = v.params]
  /\ UNCHANGED <<regVars, callVars, documents, chunker, deleted, snapshots>>

\* execute resumes after `await tool.handler(...)` with the wrapper's
\* rejection: its catch builds the result
wrappedHandlerRejects ==
  /\ wrapped.pc = "rejected"
  /\ wrapped' =
       [wrapped EXCEPT
          !.pc = "returned",
          !.result = executeSettle([name |-> wrapped.name], createTool(wrapped.name),
                                   ThrowError(wrapped.thrown.v)).res]
  /\ UNCHANGED <<regVars, callVars, documents, chunker, deleted, snapshots>>

\* the underlying handler settles and execute returns
wrappedHandlerSettles(outcome) ==
  /\ wrapped.pc = "running"
  /\ wrapped' =
       [wrapped EXCEPT
          !.pc = "returned",
          !.result = executeSettle([name |-> wrapped.name],
                                   createTool(wrapped.name), outcome).res]
  /\ UNCHANGED <<regVars, callVars, documents, chunker, deleted, snapshots>>

\* the ChatResult of the turn: toolCalls holds the request objects executed
reportToolCalls ==
  /\ wrapped.pc = "returned"
  /\ wrapped' =
       [wrapped EXCEPT
          !.pc = "reported",
          !.toolCalls = <<[name |-> wrapped.name, arguments |-> wrapped.arguments]>>]
  /\ UNCHANGED <<regVars, callVars, documents, chunker, deleted, snapshots>>

(***************************************************************************)
(* POST /documents/:id/process: the handler of the documents router, for   *)
(* one document id, and the Firestore document it reads and updates.       *)
(***************************************************************************)
\* Document['status']
Statuses == {"pending", "processing", "ready", "error"}

\* what res.status(code).json(body) sent; code 0: no response yet
Response(code, body) == [code |-> code, body |-> body]
NoResponseYet == Response(0, "")

\* a request: where its handler is suspended, the status its getDocument
\* read, the answer it has decided on and not sent yet, and its response
NoRequest ==
  [pc |-> "idle", document |-> "none", caught |-> NoResponseYet, res |-> NoResponseYet]

NoDocuments ==
  [exists |-> FALSE, status |-> "pending", chunks |-> 0,
   requests |-> [r \in 1..MaxRequests |-> NoRequest]]

\* the i-th parameter of a call made with args: undefined past the last one
Arg(args, i) == IF i <= Len(args) THEN args[i] ELSE Undefined

\* saveChunks(botId, documentId, chunks) throws reading chunks.length when
\* the third argument is missing
saveChunksThrows(args) == Nullish(Arg(args, 3))

\* the arguments of the route's call: saveChunks(document.id, chunks)
saveChunksArgs == <<Str("doc"), Obj("chunks")>>

\* Firestore serves the read of `await getDocument(req.params.id)`: the copy
\* it returns decides what the handler does when the await returns, the 404,
\* the 400 naming the status read, or the update to 'processing'
getDocument(r) ==
  /\ documents.requests[r].pc = "idle"
  /\ documents' =
       [documents EXCEPT !.requests[r] =
          IF ~documents.exists
          THEN [NoRequest EXCEPT !.pc = "check",
                                 !.caught = Response(404, "Document not found")]
          ELSE IF documents.status /= "pending"
          THEN [NoRequest EXCEPT !.pc = "check", !.document = documents.status,
                                 !.caught = Response(400, "Document is already "
                                                          \o documents.status)]
          ELSE [NoRequest EXCEPT !.pc = "update", !.document = documents.status]]
  /\ UNCHANGED <<regVars, callVars, wrapped, chunker, deleted, snapshots>>

\* what the outer catch answers
FailedToProcess == Response(500, "Failed to process document")

\* `await updateDocumentStatus(document.id, 'processing')`: Firestore applies
\* the update, or rejects it when the document is gone
updateDocumentStatus(r) ==
  /\ documents.requests[r].pc = "update"
  /\ documents.requests[r].caught = NoResponseYet
  /\ documents' =
       IF documents.exists
       THEN [documents EXCEPT !.status = "processing", !.requests[r].pc = "extract"]
       ELSE [documents EXCEPT !.requests[r].caught = FailedToProcess]
  /\ UNCHANGED <<regVars, callVars, wrapped, chunker, deleted, snapshots>>

\* what the download, extractText, chunkText and generateEmbeddings give
Extractions == {"text", "blank", "throw"}

\* the download up to generateEmbeddings; on blank text and on a thrown
\* error Firestore applies updateDocumentStatus(document.id, 'error') and
\* the handler waits for it with its answer in hand; when the document is
\* gone that update rejects and the outer catch answers
extract(r, extraction) ==
  /\ documents.requests[r].pc = "extract"
  /\ documents.requests[r].caught = NoResponseYet
  /\ documents' =
       IF extraction = "text"
       THEN [documents EXCEPT !.requests[r].pc = "save"]
       ELSE [documents EXCEPT
               !.status = IF documents.exists THEN "error" ELSE documents.status,
               !.requests[r].caught =
                 IF extraction = "blank" /\ documents.exists
                 THEN Response(400, "Could not extract text from document")
                 ELSE FailedToProcess]
  /\ UNCHANGED <<regVars, callVars, wrapped, chunker, deleted, snapshots>>

\* `await saveChunks(document.id, chunks)`: its throw is caught, Firestore
\* applies updateDocumentStatus(document.id, 'error') and the handler waits
\* for it before it rethrows; had it not thrown, the status 'ready' and the
\* answer follow
saveChunks(r) ==
  /\ documents.requests[r].pc = "save"
  /\ documents.requests[r].caught = NoResponseYet
  /\ documents' =
       IF saveChunksThrows(saveChunksArgs)
       THEN [documents EXCEPT
               !.status = IF documents.exists THEN "error" ELSE documents.status,
               !.requests[r].caught = FailedToProcess]
       ELSE [documents EXCEPT
               !.chunks = documents.chunks + 1,
               !.status = "ready",
               !.requests[r].pc = "done",
               !.requests[r].res = Response(200, "Document processed successfully")]
  /\ UNCHANGED <<regVars, callVars, wrapped, chunker, deleted, snapshots>>

\* the await on the read or on the update returns (or has rejected) and the
\* handler answers
respond(r) ==
  /\ documents.requests[r].caught /= NoResponseYet
  /\ documents.requests[r].pc /= "done"
  /\ documents' = [documents EXCEPT !.requests[r].pc = "done",
                                    !.requests[r].res = documents.requests[r].caught]
  /\ UNCHANGED <<regVars, callVars, wrapped, chunker, deleted, snapshots>>

\* DELETE /documents/:id on a document that exists: deleteDocumentAndChunks
\* commits the deletion of the document and of its chunks
deleteDocumentAndChunks ==
  /\ documents.exists
  /\ documents' = [documents EXCEPT !.exists = FALSE, !.chunks = 0]
  /\ UNCHANGED <<regVars, callVars, wrapped, chunker, deleted, snapshots>>

(***************************************************************************)
(* chunkText: strings are sequences of characters, indices count from 0.   *)
(***************************************************************************)
TextChars == {"a", ".", " ", "\n"}

\* what String.prototype.trim removes
IsSpace(c) == c \in {" ", "\n", "\r", "\t"}

RECURSIVE trimStart(_)
trimStart(s) ==
  IF Len(s) > 0 /\ IsSpace(s[1]) THEN trimStart(Tail(s)) ELSE s

RECURSIVE trimEnd(_)
trimEnd(s) ==
  IF Len(s) > 0 /\ IsSpace(s[Len(s)]) THEN trimEnd(SubSeq(s, 1, Len(s) - 1)) ELSE s

\* s.trim()
trim(s) == trimEnd(trimStart(s))

\* text.replace(/\r\n/g, '\n')
RECURSIVE replaceCRLF(_)
replaceCRLF(s) ==
  IF Len(s) = 0 THEN <<>>
  ELSE IF Len(s) >= 2 /\ s[1] = "\r" /\ s[2] = "\n"
       THEN <<"\n">> \o replaceCRLF(SubSeq(s, 3, Len(s)))
       ELSE <<s[1]>> \o replaceCRLF(Tail(s))

\* pattern occurs in s at index k
matchAt(s, pattern, k) ==
  /\ k >= 0
  /\ k + Len(pattern) <= Len(s)
  /\ \A i \in 1..Len(pattern) : s[k + i] = pattern[i]

SetMax(S) == CHOOSE x \in S : \A y \in S : y <= x
SetMin(S) == CHOOSE x \in S : \A y \in S : x <= y

\* s.indexOf(pattern)
indexOf(s, pattern) ==
  LET found == {k \in 0..Len(s) : matchAt(s, pattern, k)}
  IN IF found = {} THEN -1 ELSE SetMin(found)

\* s.lastIndexOf(pattern, fromIndex): the last occurrence that starts at or
\* before fromIndex
lastIndexOf(s, pattern, fromIndex) ==
  LET found == {k \in 0..Len(s) : k <= fromIndex /\ matchAt(s, pattern, k)}
  IN IF found = {} THEN -1 ELSE SetMax(found)

\* a start or end index as slice resolves it: negative counts from the end
sliceIndex(s, i) ==
  IF i < 0 THEN (IF Len(s) + i > 0 THEN Len(s) + i ELSE 0)
  ELSE IF i > Len(s) THEN Len(s) ELSE i

\* s.slice(start, end)
slice(s, start, end) == SubSeq(s, sliceIndex(s, start) + 1, sliceIndex(s, end))

\* s.slice(start)
sliceFrom(s, start) == slice(s, start, Len(s))

\* s.split(separator), separator not empty
RECURSIVE split(_, _)
split(s, separator) ==
  LET k == indexOf(s, separator)
  IN IF k = -1 THEN <<s>>
     ELSE <<slice(s, 0, k)>> \o split(sliceFrom(s, k + Len(separator)), separator)

\* ChunkOptions tried: 0 <= chunkOverlap < maxChunkSize
ChunkOptions ==
  {o \in [maxChunkSize : 1..MaxChunkSize, chunkOverlap : 0..MaxChunkSize,
          separator : {<<"\n">>}] : o.chunkOverlap < o.maxChunkSize}

Texts == SeqsUpTo(TextChars, MaxTextLen)

NoChunker ==
  [pc |-> "none", text |-> <<>>, options |-> [maxChunkSize |-> 1, chunkOverlap |-> 0,
                                               separator |-> <<"\n">>],
   paragraphs |-> <<>>, currentChunk |-> <<>>, chunks |-> <<>>]

\* a call chunkText(text, options) about to run
ChunkCall(text, options) ==
  [NoChunker EXCEPT !.pc = "called", !.text = text, !.options = options]

\* lines 24-35: the clean-up, the short-text return, the split in paragraphs
chunkText ==
  /\ chunker.pc = "called"
  /\ LET cleanText == trim(replaceCRLF(chunker.text))
     IN chunker' =
          IF Len(cleanText) <= chunker.options.maxChunkSize
          THEN [chunker EXCEPT !.pc = "returned", !.chunks = <<cleanText>>]
          ELSE [chunker EXCEPT !.pc = "paragraph",
                               !.paragraphs = split(cleanText, chunker.options.separator)]
  /\ UNCHANGED <<regVars, callVars, wrapped, documents, deleted, snapshots>>

\* lines 55-67: the sentence end, else the word boundary, else maxChunkSize
splitPointOf(currentChunk, maxChunkSize) ==
  LET sentenceEnd == lastIndexOf(currentChunk, <<".", " ">>, maxChunkSize)
      wordBoundary == lastIndexOf(currentChunk, <<" ">>, maxChunkSize)
  IN IF 2 * sentenceEnd > maxChunkSize THEN sentenceEnd + 1
     ELSE IF 2 * wordBoundary > maxChunkSize THEN wordBoundary
     ELSE maxChunkSize

\* lines 69 and 72-73: the chunk pushed and the chunk carried on
splitOnce(currentChunk, options) ==
  LET splitPoint == splitPointOf(currentChunk, options.maxChunkSize)
      overlapStart == IF splitPoint - options.chunkOverlap > 0
                      THEN splitPoint - options.chunkOverlap ELSE 0
  IN [pushed |-> trim(slice(currentChunk, 0, splitPoint)),
      currentChunk |-> trim(sliceFrom(currentChunk, overlapStart))]

\* lines 42-50: the paragraph joins the current chunk, or starts a new one
\* behind the overlap of the chunk it closes
addParagraph(currentChunk, trimmedParagraph, options) ==
  IF /\ Len(currentChunk) > 0
     /\ Len(currentChunk) + Len(trimmedParagraph) + Len(options.separator)
          > options.maxChunkSize
  THEN LET overlap == sliceFrom(currentChunk, 0 - options.chunkOverlap)
       IN [pushed |-> <<trim(currentChunk)>>,
           currentChunk |-> overlap
                            \o (IF Len(overlap) > 0 THEN options.separator ELSE <<>>)
                            \o trimmedParagraph]
  ELSE [pushed |-> <<>>,
        currentChunk |-> currentChunk
                         \o (IF Len(currentChunk) > 0 THEN options.separator ELSE <<>>)
                         \o trimmedParagraph]

\* one turn of `for (const paragraph of paragraphs)` up to the while loop,
\* or, past the last paragraph, lines 78-82
nextParagraph ==
  /\ chunker.pc = "paragraph"
  /\ Len(chunker.chunks) < MaxChunks
  /\ chunker' =
       IF Len(chunker.paragraphs) = 0
       THEN [chunker EXCEPT
               !.pc = "returned",
               !.chunks = IF Len(trim(chunker.currentChunk)) > 0
                          THEN Append(chunker.chunks, trim(chunker.currentChunk))
                          ELSE chunker.chunks]
       ELSE LET trimmedParagraph == trim(Head(chunker.paragraphs))
                added == addParagraph(chunker.currentChunk, trimmedParagraph,
                                      chunker.options)
            IN IF Len(trimmedParagraph) = 0
               THEN [chunker EXCEPT !.paragraphs = Tail(chunker.paragraphs)]
               ELSE [chunker EXCEPT
                       !.paragraphs = Tail(chunker.paragraphs),
                       !.chunks = chunker.chunks \o added.pushed,
                       !.currentChunk = added.currentChunk,
                       !.pc = IF Len(added.currentChunk) > chunker.options.maxChunkSize
                              THEN "while" ELSE "paragraph"]
  /\ UNCHANGED <<regVars, callVars, wrapped, documents, deleted, snapshots>>

\* one iteration of `while (currentChunk.length > maxChunkSize)`
splitChunk ==
  /\ chunker.pc = "while"
  /\ Len(chunker.chunks) < MaxChunks
  /\ LET once == splitOnce(chunker.currentChunk, chunker.options)
     IN chunker' =
          [chunker EXCEPT
             !.chunks = Append(chunker.chunks, once.pushed),
             !.currentChunk = once.currentChunk,
             !.pc = IF Len(once.currentChunk) > chunker.options.maxChunkSize
                    THEN "while" ELSE "paragraph"]
  /\ UNCHANGED <<regVars, callVars, wrapped, documents, deleted, snapshots>>


(***************************************************************************)
(* Specifications                                                          *)
(***************************************************************************)
IdleCall ==
  /\ op = "none"
  /\ pc = "idle"
  /\ slots = <<>>
  /\ order = <<>>
  /\ returned = NoReturn
  /\ cfg = NoConfig
  /\ sent = <<>>
  /\ first = NoResponse
  /\ second = NoResponse
  /\ toolResults = <<>>
  /\ reads = 0
  /\ stream = NoStream
  /\ yielded = <<>>
  /\ arrived = <<>>

\* nothing but the registry and the router in play
IdleAux ==
  /\ wrapped = NoWrapped
  /\ documents = NoDocuments
  /\ chunker = NoChunker
  /\ deleted = FALSE
  /\ snapshots = <<>>

\* the history of a registry that holds global map g and bot maps b
HistoryOf(g, b) ==
  [s \in Scopes |-> [n \in ToolNames |->
     IF s = GlobalScope THEN MapGet(g, n)
     ELSE IF s \in DOMAIN b THEN MapGet(b[s], n) ELSE NoTool]]

RegistryStep ==
  \/ \E tool \in Tools : register(tool)
  \/ \E botId \in BotIds, tool \in Tools : registerForBot(botId, tool)
  \/ \E toolName \in ToolNames : unregister(toolName)
  \/ \E botId \in BotIds, toolName \in ToolNames : unregisterForBot(botId, toolName)
  \/ clear

\* Spec: the registry alone, from `new ToolRegistry()`
Init ==
  /\ globalTools = <<>>
  /\ botTools = <<>>
  /\ registered = HistoryOf(<<>>, <<>>)
  /\ nops = 0
  /\ IdleCall
  /\ IdleAux

Next == nops < MaxRegOps /\ RegistryStep

Spec == Init /\ [][Next]_vars

\* index.ts runs registerBuiltinTools() before the server listens
BuiltinTools ==
  << [name |-> "search_documents", impl |-> "builtin"],
     [name |-> "get_current_time", impl |-> "builtin"] >>

CustomTime == [name |-> "get_current_time", impl |-> "custom"]

\* registries a direct call may find: empty, as at startup, with a private
\* tool of bot A shadowing a built-in, and with that private tool alone
ExecRegistries ==
  { [global |-> <<>>, bots |-> <<>>],
    [global |-> BuiltinTools, bots |-> <<>>],
    [global |-> BuiltinTools, bots |-> [b \in {"A"} |-> <<CustomTime>>]],
    [global |-> <<>>, bots |-> [b \in {"A"} |-> <<CustomTime>>]] }

\* SpecExec: toolRegistry.execute / executeMany called directly
InitExec ==
  /\ \E r \in ExecRegistries :
       /\ globalTools = r.global
       /\ botTools = r.bots
       /\ registered = HistoryOf(r.global, r.bots)
  /\ nops = 0
  /\ IdleCall
  /\ IdleAux

NextExec ==
  \/ \E request \in Requests, context \in Contexts : executeCall(request, context)
  \/ \E requests \in SeqsUpTo(Requests, MaxCalls), context \in Contexts :
       executeManyCall(requests, context)
  \/ \E i \in 1..Len(slots), outcome \in Outcomes : handlerSettles(i, outcome)
  \/ executeReturns
  \/ executeManyReturns

SpecExec == InitExec /\ [][NextExec]_vars

\* SpecChat: one chat turn of bot A, the registry changing around it
InitChat ==
  /\ globalTools = BuiltinTools
  /\ botTools = <<>>
  /\ registered = HistoryOf(BuiltinTools, <<>>)
  /\ nops = 0
  /\ IdleCall
  /\ IdleAux

NextChat ==
  \/ nops < MaxChatRegOps /\ RegistryStep
  \/ \E c \in Configs : chat(c)
  \/ \E resp \in FirstResponses : firstResponse(resp)
  \/ \E i \in 1..Len(slots), outcome \in Outcomes : handlerSettles(i, outcome)
  \/ sendToolResults
  \/ \E resp \in SecondResponses : secondResponse(resp)

SpecChat == InitChat /\ [][NextChat]_vars

\* what a caller may pass as config and options, config.provider left out
\* included
TurnConfigs ==
  [provider : Providers \cup {UnknownProvider, NoProvider}, hasKey : BOOLEAN,
   tools : BOOLEAN, ctx : {ChatBot, NoBotId}]

\* SpecTurn: one chat turn under each registry of ExecRegistries, the
\* registry left alone meanwhile
InitTurn ==
  /\ \E r \in ExecRegistries :
       /\ globalTools = r.global
       /\ botTools = r.bots
       /\ registered = HistoryOf(r.global, r.bots)
  /\ nops = 0
  /\ IdleCall
  /\ IdleAux

NextTurn ==
  \/ \E c \in TurnConfigs : chat(c)
  \/ \E resp \in FirstResponses : firstResponse(resp)
  \/ \E i \in 1..Len(slots), outcome \in Outcomes : handlerSettles(i, outcome)
  \/ sendToolResults
  \/ \E resp \in SecondResponses : secondResponse(resp)

SpecTurn == InitTurn /\ [][NextTurn]_vars

\* chatStream is followed with and without tools asked for
StreamConfigs == {c \in TurnConfigs : c.tools <=> c.ctx /= NoBotId}

\* SpecStream: one chatStream call and its consumer, from the startup registry
NextStream ==
  \/ \E c \in StreamConfigs : chatStream(c)
  \/ \E resp \in StreamResponses : streamResponse(resp)
  \/ \E r \in ReadResults(cfg) : streamRead(r)
  \/ consumerNext
  \/ consumerReturn

SpecStream == InitChat /\ [][NextStream]_vars

\* SpecRouter: one call of either entry point, chat or chatStream, from the
\* startup registry
NextRouter ==
  \/ NextTurn
  \/ NextStream

SpecRouter == InitChat /\ [][NextRouter]_vars

\* SpecCreate: tools reach the registry through createTool or as object
\* literals of type Tool
InitCreate ==
  /\ globalTools = <<>>
  /\ botTools = <<>>
  /\ registered = [s \in Scopes |-> [n \in CreateNames |-> NoTool]]
  /\ nops = 0
  /\ IdleCall
  /\ IdleAux

NextCreate ==
  /\ nops < MaxCreateOps
  /\ \/ \E name \in CreateNames : registerCreated(name)
     \/ \E botId \in BotIds, name \in CreateNames : registerForBotCreated(botId, name)
     \/ \E tool \in LiteralTools : register(tool)
     \/ \E botId \in BotIds, tool \in LiteralTools : registerForBot(botId, tool)
     \/ \E toolName \in CreateNames : unregister(toolName)

SpecCreate == InitCreate /\ [][NextCreate]_vars

\* SpecChunker: one chunkText call, for every text of up to MaxTextLen
\* characters and every option set with chunkOverlap < maxChunkSize
InitChunker ==
  /\ globalTools = <<>>
  /\ botTools = <<>>
  /\ registered = HistoryOf(<<>>, <<>>)
  /\ nops = 0
  /\ IdleCall
  /\ wrapped = NoWrapped
  /\ documents = NoDocuments
  /\ \E text \in Texts, options \in ChunkOptions : chunker = ChunkCall(text, options)
  /\ deleted = FALSE
  /\ snapshots = <<>>

NextChunker ==
  \/ chunkText
  \/ nextParagraph
  \/ splitChunk

SpecChunker == InitChunker /\ [][NextChunker]_vars

\* SpecDocuments: MaxRequests concurrent process requests for one document id
InitDocuments ==
  /\ globalTools = <<>>
  /\ botTools = <<>>
  /\ registered = HistoryOf(<<>>, <<>>)
  /\ nops = 0
  /\ IdleCall
  /\ wrapped = NoWrapped
  /\ \E exists \in BOOLEAN, status \in Statuses :
       /\ ~exists => status = "pending"
       /\ documents = [NoDocuments EXCEPT !.exists = exists, !.status = status]
  /\ chunker = NoChunker
  /\ deleted = FALSE
  /\ snapshots = <<>>

NextDocuments ==
  \/ \E r \in 1..MaxRequests : getDocument(r)
  \/ \E r \in 1..MaxRequests : updateDocumentStatus(r)
  \/ \E r \in 1..MaxRequests, extraction \in Extractions : extract(r, extraction)
  \/ \E r \in 1..MaxRequests : saveChunks(r)
  \/ \E r \in 1..MaxRequests : respond(r)
  \/ deleteDocumentAndChunks

SpecDocuments == InitDocuments /\ [][NextDocuments]_vars

\* SpecSnapshots: the registry with callers that keep getToolsForBot's arrays
NextSnapshots ==
  \/ nops < MaxSnapshotRegOps /\ RegistryStep
  \/ \E botId \in BotIds : getToolsForBotCall(botId)

SpecSnapshots == Init /\ [][NextSnapshots]_vars

\* SpecWrapper: one call of a created tool, for every declaration of up to
\* MaxParams parameters and every argument object over the declared keys
InitWrapper ==
  /\ globalTools = <<>>
  /\ botTools = <<>>
  /\ registered = HistoryOf(<<>>, <<>>)
  /\ nops = 0
  /\ IdleCall
  /\ \E parameters \in ParameterLists, arguments \in Arguments :
       wrapped = WrappedCall(parameters, arguments)
  /\ documents = NoDocuments
  /\ chunker = NoChunker
  /\ deleted = FALSE
  /\ snapshots = <<>>

NextWrapper ==
  \/ wrappedHandler
  \/ wrappedHandlerRejects
  \/ \E outcome \in HandlerOutcomes : wrappedHandlerSettles(outcome)
  \/ reportToolCalls

SpecWrapper == InitWrapper /\ [][NextWrapper]_vars

(***************************************************************************)
(* Properties of the registry and of execute / executeMany                 *)
(***************************************************************************)
\* the execute() of slot s failed: no tool, or its handler threw
Failed(s) == s.tool = NoTool \/ s.outcome.kind = "throw"

\* C1: execute never throws: whatever the registry holds and whatever the
\* handler does, its promise is fulfilled with a ToolCallResult that carries
\* request.name; when the tool is not registered the error is exactly
\* "Tool not found: <name>", and every failure has a string error and a null
\* result; a direct caller of execute gets that result, never an exception.
C1_ExecuteNeverThrows ==
  /\ \A i \in Settled(slots) :
       LET s == slots[i] IN
       /\ s.promise.st = "fulfilled"
       /\ s.promise.res.name = s.request.name
       /\ s.tool = NoTool =>
            s.promise.res.error = Str("Tool not found: " \o s.request.name)
       /\ Failed(s) => s.promise.res.error.t = "string" /\ s.promise.res.result = Null
  /\ (op = "execute" /\ pc = "done") =>
       returned.kind = "result" /\ returned.result = slots[1].promise.res

\* C1 witness: execute has returned for a handler that threw a non-Error value
C1_Witness ==
  /\ op = "execute" /\ pc = "done"
  /\ slots[1].outcome = ThrowValue(Str("oops"))
  /\ returned.result = ToolCallResult(slots[1].request.name, Null, Str("Unknown error"))

\* C2: executeMany returns one result per request, result i being the result
\* of request i, whatever the order in which the handlers completed, and a
\* failing or not-found call leaves the other calls their own results.
C2_ExecuteManyKeepsOrder ==
  (op = "executeMany" /\ pc = "done") =>
    /\ returned.kind = "results"
    /\ Len(returned.results) = Len(slots)
    /\ \A i \in 1..Len(slots) :
         /\ returned.results[i].name = slots[i].request.name
         /\ returned.results[i] = slots[i].promise.res
         /\ ~Failed(slots[i]) => returned.results[i].result = slots[i].outcome.val

\* C2 witness: the second handler completed before the first, the first
\* succeeded and the second failed
C2_Witness ==
  /\ op = "executeMany" /\ pc = "done"
  /\ order = <<2, 1>>
  /\ slots[1].outcome = Return(Obj("{data}"))
  /\ slots[2].outcome = ThrowError("boom")
  /\ returned.results[1].result = Obj("{data}")
  /\ returned.results[2].error = Str("boom")

\* C3: get(n, A) is the tool currently registered under n for agent A when
\* there is one, otherwise the one registered globally, otherwise undefined;
\* a lookup for another agent, or with no agent (omitted or the empty
\* string), never comes from A's private tools.
C3_LookupPrecedence ==
  \A n \in ToolNames :
    /\ \A A \in BotIds :
         get(n, A) = IF registered[A][n] /= NoTool THEN registered[A][n]
                     ELSE registered[GlobalScope][n]
    /\ \A none \in {"", NoBotId} : get(n, none) = registered[GlobalScope][n]
    /\ \A A \in BotIds : \A other \in BotArgs \ {A} :
         LET private == registered[A][n]
             own == IF other \in BotIds THEN registered[other][n] ELSE NoTool
         IN (private /= NoTool /\ private /= own /\ private /= registered[GlobalScope][n])
              => get(n, other) /= private

\* C3 witness: one name is registered globally and, as another tool, for agent A
C3_Witness ==
  LET n == "get_current_time"
      global == [name |-> n, impl |-> "builtin"]
      private == [name |-> n, impl |-> "custom"]
  IN /\ registered[GlobalScope][n] = global
     /\ registered["A"][n] = private
     /\ get(n, "A") = private
     /\ get(n, "B") = global
     /\ get(n, NoBotId) = global

\* a field of a ToolCallResult is populated when it is neither null nor undefined
Populated(x) == ~Nullish(x)

\* C8 as claimed: every ToolCallResult has exactly one of result and error
\* populated, for every handler return value and every thrown failure.
C8_ExactlyOnePopulated ==
  \A i \in Settled(slots) :
    LET res == slots[i].promise.res
    IN Populated(res.result) /= Populated(res.error)

\* C8, what execute does guarantee: error is populated (a string) exactly for a failed call, whose
\* result is null; a successful call has no error and its result is what the
\* handler returned, so both fields are empty when that is null or undefined.
C8_ErrorIffFailed ==
  \A i \in Settled(slots) :
    LET s == slots[i]
        res == s.promise.res
    IN /\ s.promise.st = "fulfilled"
       /\ Failed(s) <=> Populated(res.error)
       /\ Failed(s) => res.error.t = "string" /\ res.result = Null
       /\ ~Failed(s) => res.error = Undefined /\ res.result = s.outcome.val
       /\ ~(Populated(res.result) /\ Populated(res.error))

\* C8 witness: a handler returned undefined, and the result has neither field
C8_Witness ==
  \E i \in Settled(slots) :
    /\ slots[i].outcome = Return(Undefined)
    /\ slots[i].promise.res = ToolCallResult(slots[i].request.name, Undefined, Undefined)

(***************************************************************************)
(* Properties of a chat turn                                               *)
(***************************************************************************)
\* the tool registered for bot b under n right now: b's own, else the global
CurrentTool(n, b) ==
  IF registered[b][n] /= NoTool THEN registered[b][n] ELSE registered[GlobalScope][n]

\* the tool declared to the provider under n in the first request
DeclaredTool(n) == MapGet(sent[1].tools, n)

\* C4 as claimed: the tool executed for a call named n is the tool declared
\* for n in the first request of the turn, and a declared tool is still
\* resolvable when its call is executed.
C4_ExecutesDeclaredTool ==
  op = "chat" =>
    \A i \in 1..Len(slots) :
      DeclaredTool(slots[i].request.name) /= NoTool =>
        slots[i].tool = DeclaredTool(slots[i].request.name)

\* C4, what a chat turn does guarantee: only the declarations are a snapshot taken when the turn
\* begins (later registry changes never alter the request that was sent); a
\* tool call is resolved in the registry as it is when executeMany is called,
\* after the first response: the tool executed for n is the one then
\* registered for the bot, else globally, a tool removed meanwhile gives a
\* "Tool not found" result, and changes after that do not touch the call.
C4_ResolvedAtDispatch ==
  [][ /\ (op = "none" /\ op' = "chat" /\ pc' = "await1") =>
           {sent'[1].tools[k] : k \in 1..Len(sent'[1].tools)} =
             IF cfg'.tools /\ cfg'.ctx /= NoBotId
             THEN {CurrentTool(n, cfg'.ctx) : n \in ToolNames} \ {NoTool}
             ELSE {}
      /\ (op = "chat" /\ Len(sent) >= 1) => sent'[1] = sent[1]
      /\ (op = "chat" /\ pc = "await1" /\ pc' = "exec") =>
           \A i \in 1..Len(slots') :
             LET n == slots'[i].request.name IN
             /\ slots'[i].tool = CurrentTool(n, cfg.ctx)
             /\ slots'[i].tool = NoTool =>
                  slots'[i].promise =
                    Fulfilled(ToolCallResult(n, Null, Str("Tool not found: " \o n)))
      /\ (op = "chat" /\ pc \in {"exec", "await2", "done"}) =>
           /\ Len(slots') = Len(slots)
           /\ \A i \in 1..Len(slots) : slots'[i].tool = slots[i].tool
    ]_vars

\* C4 witness: a tool was declared, and the call of that name ran another
\* tool, registered after the first request was sent
C4_Witness ==
  /\ op = "chat"
  /\ \E i \in 1..Len(slots) :
       /\ DeclaredTool(slots[i].request.name) = [name |-> "get_current_time", impl |-> "builtin"]
       /\ slots[i].tool = CustomTime

\* the tool-result entry the adapter builds for block b and result r
EntryOf(b, r) ==
  CASE providerOf(cfg) = "vertex" -> vertexEntry(b, r)
    [] providerOf(cfg) = "openai" -> openaiEntry(b, r)
    [] OTHER -> anthropicEntry(b, r)

\* C5 as claimed: when the first response holds tool-invocation blocks and
\* a toolContext was given, every requested call is started before anything
\* is sent back; then exactly one second request goes out, holding the
\* original assistant turn and one tool-result entry per call, entry i
\* answering call i; the ChatResult carries toolCalls, toolResults and, as
\* content, the text of the second response, for the three providers alike.
C5_TwoRoundTrips ==
  op = "chat" =>
    /\ Len(sent) <= 2
    /\ pc = "exec" => Len(sent) = 1 /\ Len(slots) = Len(ToolBlocks(first))
    /\ Len(sent) = 2 =>
         /\ takesToolBranch(first, cfg)
         /\ Len(slots) = Len(ToolBlocks(first))
         /\ Settled(slots) = 1..Len(slots)
         /\ sent[2].assistant = first.blocks
         /\ Len(sent[2].entries) = Len(slots)
         /\ \A i \in 1..Len(slots) :
              /\ slots[i].request.name = ToolBlocks(first)[i].val
              /\ sent[2].entries[i] = EntryOf(ToolBlocks(first)[i], slots[i].promise.res)
    /\ (pc = "done" /\ returned.kind = "chat" /\ Len(ToolBlocks(first)) > 0
          /\ cfg.ctx /= NoBotId) =>
         /\ Len(sent) = 2
         /\ returned.hasToolCalls /\ returned.hasToolResults
         /\ returned.toolCalls = toolCallsOf(first)
         /\ returned.toolResults = [i \in 1..Len(slots) |-> slots[i].promise.res]
         /\ second.status = "ok" => returned.content = FindText(second)

\* C6 as claimed: a response without tool-invocation blocks (for OpenAI also
\* one whose tool_calls is an empty list) gives { content: <its text> } with
\* neither toolCalls nor toolResults, and no second request is made.
C6_TextOnlyResponse ==
  (op = "chat" /\ first.status = "ok" /\ Len(ToolBlocks(first)) = 0) =>
    /\ Len(sent) = 1
    /\ pc = "done"
    /\ returned = ChatResultText(FindText(first))

\* C7 as claimed: a non-success response to any provider request of the turn,
\* the second one included, makes chat throw an error carrying the provider's
\* raw payload; no ChatResult is returned and nothing is retried.
C7_ProviderFailureThrows ==
  (op = "chat" /\ (first.status = "error" \/ second.status = "error")) =>
    /\ pc = "done"
    /\ returned.kind = "throw"
    /\ returned.error =
         providerError(IF first.status = "error" THEN first ELSE second, cfg)
    /\ Len(sent) = IF first.status = "error" THEN 1 ELSE 2

\* C9: a ChatResult has toolCalls and toolResults both or neither; when
\* present they have the same length and toolResults[i] is the result of
\* executing toolCalls[i].
C9_ToolCallsMatchResults ==
  (op = "chat" /\ pc = "done" /\ returned.kind = "chat") =>
    /\ returned.hasToolCalls = returned.hasToolResults
    /\ ~returned.hasToolCalls => returned.toolCalls = <<>> /\ returned.toolResults = <<>>
    /\ Len(returned.toolCalls) = Len(returned.toolResults)
    /\ returned.hasToolCalls =>
         /\ Len(returned.toolCalls) = Len(slots)
         /\ \A i \in 1..Len(slots) :
              /\ returned.toolResults[i].name = returned.toolCalls[i].name
              /\ slots[i].request = returned.toolCalls[i]
              /\ returned.toolResults[i] = slots[i].promise.res

\* C9 witness: a ChatResult with two calls of different tools, the second
\* of which completed first
C9_Witness ==
  /\ op = "chat" /\ pc = "done" /\ returned.kind = "chat"
  /\ returned.hasToolCalls /\ returned.hasToolResults
  /\ order = <<2, 1>>
  /\ returned.toolCalls = <<[name |-> "get_current_time"], [name |-> "search_documents"]>>
  /\ returned.toolResults[1].name = "get_current_time"
  /\ returned.toolResults[2].name = "search_documents"

\* C10 as claimed: the tool-result entry of each call carries
\* result.error ?? result.result: the error string whenever the call failed
\* (the empty string included), the success payload otherwise.
C10_EntryCarriesErrorOrResult ==
  (op = "chat" /\ Len(sent) = 2) =>
    \A i \in 1..Len(slots) :
      LET r == slots[i].promise.res
          carried == Coalesce(r.error, r.result)
      IN sent[2].entries[i].content =
           IF providerOf(cfg) = "vertex" THEN carried ELSE JSONstringify(carried)

\* C11: when the first response holds tool-invocation blocks and no
\* toolContext was supplied, chat executes no tool and returns the unresolved
\* tool-call requests in the ChatResult, with empty content, instead of
\* dropping them and returning only the text.
C11_UnresolvedCallsReturned ==
  (/\ op = "chat" /\ pc = "done"
   /\ cfg.ctx = NoBotId
   /\ first.status = "ok" /\ Len(ToolBlocks(first)) > 0) =>
    /\ slots = <<>>
    /\ Len(sent) = 1
    /\ returned.kind = "chat"
    /\ returned.content = ""
    /\ returned.hasToolCalls /\ returned.toolCalls = toolCallsOf(first)

\* C12: a provider request carries a tools field only when options.tools is
\* true, a toolContext is supplied and getToolsForBot(botId) is not empty;
\* in every other case, an agent without any tool included, the request has
\* no tools field, never a present but empty tools array.
C12_ToolsFieldOnlyWhenNonEmpty ==
  op = "chat" =>
    /\ \A i \in 1..Len(sent) :
         /\ sent[i].hasTools =>
              /\ cfg.tools /\ cfg.ctx /= NoBotId
              /\ getToolsForBot(cfg.ctx) /= <<>>
              /\ sent[i].tools = getToolsForBot(cfg.ctx)
         /\ ~sent[i].hasTools =>
              \/ ~(cfg.tools /\ cfg.ctx /= NoBotId /\ getToolsForBot(cfg.ctx) /= <<>>)
              \/ (i = 2 /\ providerOf(cfg) = "openai")
    /\ Len(sent) >= 1 =>
         (sent[1].hasTools <=>
            (cfg.tools /\ cfg.ctx /= NoBotId /\ getToolsForBot(cfg.ctx) /= <<>>))

\* C12 witness: tools are enabled for an agent that has no tool at all, and
\* the request went out without a tools field
C12_Witness ==
  /\ op = "chat" /\ pc = "await1"
  /\ cfg.tools /\ cfg.ctx = ChatBot
  /\ getToolsForBot(ChatBot) = <<>>
  /\ Len(sent) = 1 /\ ~sent[1].hasTools /\ sent[1].tools = <<>>

(***************************************************************************)
(* Properties of a streamed turn                                           *)
(***************************************************************************)
\* the complete records the body has delivered so far, in delivery order
\* (Vertex: the first part of every chunk that has one)
DeliveredLines ==
  IF providerOf(cfg) = "vertex" THEN [i \in 1..Len(arrived) |-> <<arrived[i]>>]
  ELSE LET lines == Split(arrived) IN SubSeq(lines, 1, Len(lines) - 1)

\* the text increments among them
RECURSIVE TextsOf(_)
TextsOf(lines) ==
  IF lines = <<>> THEN <<>>
  ELSE LET text == fragmentOf(Head(lines), cfg)
       IN (IF Truthy(text) THEN <<text>> ELSE <<>>) \o TextsOf(Tail(lines))

RECURSIVE Concat(_)
Concat(texts) == IF texts = <<>> THEN "" ELSE Head(texts).v \o Concat(Tail(texts))

IsPrefix(a, b) == Len(a) <= Len(b) /\ SubSeq(b, 1, Len(a)) = a

\* C13: in every chatStream call each fragment yielded is a non-empty
\* string, the fragments are the text increments of the body in delivery
\* order (all of them whenever the generator waits for the body or has
\* finished), and the content of the final ChatResult is the concatenation
\* of exactly the fragments yielded.
C13_FragmentsMatchContent ==
  op = "chatStream" =>
    /\ \A i \in 1..Len(yielded) : yielded[i].t = "string" /\ yielded[i].v /= ""
    /\ IsPrefix(yielded, TextsOf(DeliveredLines))
    /\ (pc = "read" \/ (pc = "done" /\ stream.reader = "ended")) =>
         yielded = TextsOf(DeliveredLines)
    /\ stream.fullContent = Concat(yielded)
    /\ (pc = "done" /\ stream.reader = "ended" /\ returned.kind /= "throw") =>
         returned = ChatResultText(Concat(yielded))

\* C13 witness: the fragments "Hel", "lo", " world" were yielded, the last
\* two from one chunk, and the final ChatResult holds "Hello world"
C13_Witness ==
  /\ op = "chatStream" /\ pc = "done"
  /\ yielded = <<Str("Hel"), Str("lo"), Str(" world")>>
  /\ returned = ChatResultText("Hello world")

\* C14: when the consumer of a chatStream sequence stops consuming before
\* the stream has ended, the reader of the response body is released
\* (cancelled or closed), and no tool execution and no further provider
\* request is left pending.
C14_ReaderReleasedOnStop ==
  (op = "chatStream" /\ pc = "stopped") =>
    /\ stream.reader \in {"closed", "ended"}
    /\ slots = <<>>
    /\ Len(sent) = 1

\* C15: a chatStream call, whatever the provider and the options (tools
\* asked for with a toolContext included), issues one provider request at
\* most, without a tools field, never reads the registry, never executes a
\* tool, and yields nothing but the text of that one response.
C15_StreamingNeverCallsTools ==
  op = "chatStream" =>
    /\ Len(sent) <= 1
    /\ \A i \in 1..Len(sent) :
         ~sent[i].hasTools /\ sent[i].tools = <<>> /\ sent[i].entries = <<>>
    /\ reads = 0
    /\ slots = <<>> /\ toolResults = <<>>
    /\ second = NoResponse
    /\ IsPrefix(yielded, TextsOf(DeliveredLines))
    /\ ~returned.hasToolCalls /\ ~returned.hasToolResults

\* C15 witness: tools were asked for with a toolContext, the body delivered
\* a record without text (a tool-call delta) after a fragment, and the
\* generator returned the text alone
C15_Witness ==
  /\ op = "chatStream" /\ pc = "done"
  /\ cfg.tools /\ cfg.ctx = ChatBot
  /\ getToolsForBot(ChatBot) /= <<>>
  /\ \E i \in 1..Len(arrived) :
       arrived[i] \in {Json(Delta, Undefined), Part("functionCall", Undefined)}
  /\ yielded = <<Str("Hel")>>
  /\ returned = ChatResultText("Hel")

\* a delivered `data: ` record whose payload is not valid JSON
Malformed(line) ==
  startsWithData(line) /\ ~parses(line) /\ line /= <<DataPrefix, DoneMark>>

MalformedDelivered ==
  /\ providerOf(cfg) /= "vertex"
  /\ \E i \in 1..Len(DeliveredLines) : Malformed(DeliveredLines[i])

\* C16: a provider failure aborts the turn with no partial answer: once the
\* provider exchange of a chatStream call has failed with a non-success
\* status or a read error, the call has thrown, and the caller has received
\* no ChatResult and no text fragment of that turn.
C16_FailureLeavesNoPartialAnswer ==
  (/\ op = "chatStream"
   /\ first.status = "error" \/ stream.last = "error") =>
    /\ pc = "done"
    /\ returned.kind = "throw"
    /\ yielded = <<>>

\* C17: a malformed provider response body surfaces as a thrown failure and
\* is never swallowed: once a `data: ` record whose payload is not valid JSON
\* has been gone through, chatStream has failed.
C17_MalformedRecordThrows ==
  (op = "chatStream" /\ pc \in {"read", "done"} /\ MalformedDelivered) =>
    (pc = "done" /\ returned.kind = "throw" /\ stream.last /= "error")

(***************************************************************************)
(* Properties of the dispatch and of configuration errors                  *)
(***************************************************************************)
\* what tells the adapters apart from outside: the error each one throws
\* for a missing credential and for a response without candidates / choices
CredentialErrorOf(adapter) ==
  CASE adapter = "vertex" ->
         Str("GCP_PROJECT_ID environment variable is required for Vertex AI")
    [] adapter = "openai" -> Str("OpenAI API key is required")
    [] OTHER -> Str("Anthropic API key is required")

UnknownProviderError == Str("Unknown LLM provider: " \o cfg.provider)

\* C18: chat and chatStream run exactly the adapter of config.provider, the
\* Vertex adapter when provider is left out, and for any other value fail
\* with "Unknown LLM provider" without running any adapter: no request, no
\* registry read, no fallback to a default provider.
C18_DispatchByProvider ==
  op \in {"chat", "chatStream"} =>
    LET adapter == IF cfg.provider = NoProvider THEN "vertex" ELSE cfg.provider
    IN IF adapter \in Providers
       THEN /\ returned /= Thrown(UnknownProviderError)
            /\ ~cfg.hasKey => returned = Thrown(CredentialErrorOf(adapter))
            /\ cfg.hasKey => Len(sent) >= 1
            /\ (op = "chat" /\ first.status = "empty") =>
                 returned = CASE adapter = "vertex" -> Thrown(Str("No response generated"))
                              [] adapter = "openai" -> Thrown(Str("No response from OpenAI"))
                              [] OTHER -> ChatResultText("")
       ELSE /\ pc = "done"
            /\ returned = Thrown(UnknownProviderError)
            /\ sent = <<>> /\ first = NoResponse
            /\ reads = 0 /\ slots = <<>> /\ yielded = <<>>

\* C18 witness: provider was left out and the Vertex adapter answered, in
\* chat, a response without candidates
C18_Witness ==
  /\ op = "chat" /\ pc = "done"
  /\ cfg.provider = NoProvider
  /\ first.status = "empty"
  /\ returned = Thrown(Str("No response generated"))

\* C19: a configuration error fails before any side effect: when the API key
\* is missing for OpenAI or Anthropic, or the provider is unknown, chat and
\* chatStream have thrown without any provider request, registry read or
\* tool execution, and nothing is tried again.
C19_ConfigErrorBeforeSideEffects ==
  (/\ op \in {"chat", "chatStream"}
   /\ \/ cfg.provider \in {"openai", "anthropic"} /\ ~cfg.hasKey
      \/ cfg.provider \notin Providers \cup {NoProvider}) =>
    /\ pc = "done"
    /\ returned.kind = "throw"
    /\ returned.error = IF cfg.provider \in Providers
                        THEN CredentialErrorOf(cfg.provider)
                        ELSE UnknownProviderError
    /\ sent = <<>> /\ first = NoResponse /\ second = NoResponse
    /\ reads = 0 /\ slots = <<>> /\ toolResults = <<>>
    /\ yielded = <<>> /\ stream = NoStream

\* C19 witness: chatStream for OpenAI without an API key, tools asked for
C19_Witness ==
  /\ op = "chatStream" /\ pc = "done"
  /\ cfg.provider = "openai" /\ ~cfg.hasKey
  /\ cfg.tools /\ cfg.ctx = ChatBot
  /\ returned = Thrown(Str("OpenAI API key is required"))
  /\ sent = <<>> /\ reads = 0

(***************************************************************************)
(* Properties of createTool and registration                               *)
(***************************************************************************)
\* every tool the registry holds, in the global map or in a bot's map
HeldTools ==
  {globalTools[i] : i \in 1..Len(globalTools)}
  \cup UNION {{botTools[b][i] : i \in 1..Len(botTools[b])} : b \in DOMAIN botTools}

\* C20: a malformed tool can never enter the registry: in every registry
\* state every tool held in the global map or in a bot's map has a name that
\* matches ^[a-z][a-z0-9_]*$.
C20_RegistryHoldsValidNames ==
  \A tool \in HeldTools : validName(tool.name)

(***************************************************************************)
(* Claims about the wrapper createTool puts around a handler.              *)
(***************************************************************************)
\* execute has returned from the call of the created tool
WrapperReturned == wrapped.pc \in {"returned", "reported"}

\* a parameter declared before entry i is rejected for the arguments sent
EarlierRejected(i) ==
  validate(SubSeq(wrapped.parameters, 1, i - 1), wrapped.sent, 1).thrown /= Undefined

\* C21, as stated: when a request lacks a parameter declared required: true,
\* with or without a default, execute returns the error that names that
\* parameter and result null, and the underlying handler is not invoked.
C21_MissingRequiredNamed ==
  WrapperReturned =>
    \A i \in DOMAIN wrapped.parameters :
      LET key == wrapped.parameters[i].key
          param == wrapped.parameters[i].param
      IN (param.required /\ wrapped.sent[key] = Undefined) =>
           /\ wrapped.result.error = MissingMessage(key)
           /\ wrapped.result.result = Null
           /\ wrapped.invoked = 0

\* C21, amended: when a request lacks a parameter declared required: true,
\* with or without a default, execute returns a non-null error and result
\* null and the underlying handler is not invoked; the error names that
\* parameter unless a parameter declared before it is rejected first.
C21_MissingRequiredRejected ==
  WrapperReturned =>
    \A i \in DOMAIN wrapped.parameters :
      LET key == wrapped.parameters[i].key
          param == wrapped.parameters[i].param
      IN (param.required /\ wrapped.sent[key] = Undefined) =>
           /\ ~Nullish(wrapped.result.error)
           /\ wrapped.result.result = Null
           /\ wrapped.invoked = 0
           /\ ~EarlierRejected(i) => wrapped.result.error = MissingMessage(key)

\* a required parameter that declares a default was left out, and execute returned
C21_Witness ==
  /\ WrapperReturned
  /\ \E i \in DOMAIN wrapped.parameters :
       /\ wrapped.parameters[i].param.required
       /\ wrapped.parameters[i].param.default /= Undefined
       /\ wrapped.sent[wrapped.parameters[i].key] = Undefined
       /\ wrapped.result.error = MissingMessage(wrapped.parameters[i].key)

\* C22, as stated: when a request supplies, for a parameter that declares an
\* enum, a value outside it, execute returns the error that names the value
\* and the allowed set, and the underlying handler is not invoked.
C22_InvalidEnumNamed ==
  WrapperReturned =>
    \A i \in DOMAIN wrapped.parameters :
      LET key == wrapped.parameters[i].key
          param == wrapped.parameters[i].param
          value == wrapped.sent[key]
      IN (/\ param.enum.declared
          /\ value /= Undefined
          /\ ~includes(param.enum.values, value)) =>
           /\ wrapped.result.error = InvalidMessage(key, value, param.enum)
           /\ wrapped.invoked = 0

\* C22, amended: when a request supplies, for a parameter that declares an
\* enum, a value outside it, execute returns a non-null error and the
\* underlying handler is not invoked; the error names the value and the
\* allowed set unless a parameter declared before it is rejected first, or
\* the value is null and the parameter is required.
C22_InvalidEnumRejected ==
  WrapperReturned =>
    \A i \in DOMAIN wrapped.parameters :
      LET key == wrapped.parameters[i].key
          param == wrapped.parameters[i].param
          value == wrapped.sent[key]
      IN (/\ param.enum.declared
          /\ value /= Undefined
          /\ ~includes(param.enum.values, value)) =>
           /\ ~Nullish(wrapped.result.error)
           /\ wrapped.result.result = Null
           /\ wrapped.invoked = 0
           /\ (~EarlierRejected(i) /\ ~(param.required /\ value = Null)) =>
                wrapped.result.error = InvalidMessage(key, value, param.enum)

\* a value outside the enum was supplied and execute returned the error naming it
C22_Witness ==
  /\ WrapperReturned
  /\ \E i \in DOMAIN wrapped.parameters :
       /\ wrapped.parameters[i].param.enum.declared
       /\ wrapped.sent[wrapped.parameters[i].key] = Str("raw")
       /\ wrapped.result.error =
            Str("Invalid value for " \o wrapped.parameters[i].key
                \o ": \"raw\". Must be one of: iso, unix")
       /\ wrapped.invoked = 0

\* C23: when the underlying handler is invoked, every declared parameter that
\* has a default and was not supplied arrives as its default, whatever the
\* declaration order of the parameters, and every key the tool does not
\* declare arrives as it was sent.
C23_DefaultsReachHandler ==
  wrapped.invoked > 0 =>
    /\ \A i \in DOMAIN wrapped.parameters :
         LET key == wrapped.parameters[i].key
             param == wrapped.parameters[i].param
         IN (param.default /= Undefined /\ wrapped.sent[key] = Undefined) =>
              wrapped.received[key] = param.default
    /\ \A key \in ArgKeys :
         (\A i \in DOMAIN wrapped.parameters : wrapped.parameters[i].key /= key) =>
           wrapped.received[key] = wrapped.sent[key]

\* the handler ran with a default injected for the parameter declared second,
\* and with an undeclared key it was sent
C23_Witness ==
  /\ wrapped.invoked > 0
  /\ Len(wrapped.parameters) = 2
  /\ wrapped.parameters[2].param.default = Str("iso")
  /\ wrapped.sent[wrapped.parameters[2].key] = Undefined
  /\ wrapped.received[wrapped.parameters[2].key] = Str("iso")
  /\ wrapped.sent[wrapped.parameters[1].key] = Str("unix")
  /\ wrapped.sent[UndeclaredKey] = Str("raw")
  /\ wrapped.received[UndeclaredKey] = Str("raw")

\* the loop reached entry i and got past its required test
Injects(i) ==
  /\ ~EarlierRejected(i)
  /\ ~missingRequired(wrapped.parameters[i].param,
                      wrapped.sent[wrapped.parameters[i].key])

\* C27, as stated: after execute, request.arguments holds the default of every
\* declared parameter the request left out, and so does the entry of
\* ChatResult.toolCalls.
C27_ArgumentsCarryEveryDefault ==
  \A i \in DOMAIN wrapped.parameters :
    LET key == wrapped.parameters[i].key
        param == wrapped.parameters[i].param
    IN (param.default /= Undefined /\ wrapped.sent[key] = Undefined) =>
         /\ WrapperReturned => wrapped.arguments[key] = param.default
         /\ wrapped.pc = "reported" =>
              wrapped.toolCalls[1].arguments[key] = param.default

\* C27, amended: the wrapper writes defaults into the caller's object: after
\* execute, request.arguments and the entry of ChatResult.toolCalls hold the
\* default of every left-out parameter the loop reached without rejecting an
\* earlier one or finding this one required, also when a later parameter, or
\* the injected default itself, is then rejected.
C27_DefaultsInjectedInPlace ==
  \A i \in DOMAIN wrapped.parameters :
    LET key == wrapped.parameters[i].key
        param == wrapped.parameters[i].param
    IN (/\ param.default /= Undefined
        /\ wrapped.sent[key] = Undefined
        /\ Injects(i)) =>
         /\ WrapperReturned => wrapped.arguments[key] = param.default
         /\ wrapped.pc = "reported" =>
              wrapped.toolCalls[1].arguments[key] = param.default

\* the second parameter was rejected, and the reported tool call still carries
\* the default injected for the first
C27_Witness ==
  /\ wrapped.pc = "reported"
  /\ Len(wrapped.parameters) = 2
  /\ wrapped.result.error = MissingMessage(wrapped.parameters[2].key)
  /\ wrapped.invoked = 0
  /\ wrapped.sent[wrapped.parameters[1].key] = Undefined
  /\ wrapped.toolCalls[1].arguments[wrapped.parameters[1].key] = Str("iso")

(***************************************************************************)
(* Claims about the registry's listings and removals.                      *)
(***************************************************************************)
\* the names a listing for botId has to hold, by the history of registrations
VisibleNames(botId) ==
  {n \in ToolNames : registered[GlobalScope][n] /= NoTool \/ registered[botId][n] /= NoTool}

\* the tool a listing for botId has to hold under name n
VisibleTool(botId, n) ==
  IF registered[botId][n] /= NoTool THEN registered[botId][n]
  ELSE registered[GlobalScope][n]

\* C24: getToolsForBot(A) returns exactly one tool per name registered
\* globally or for A, A's private tool where both exist; the array it
\* returned reads the same after later register and unregister calls; two
\* calls on the same registry state return the same tools in the same order.
C24_ListingIsMergedSnapshot ==
  \A i \in DOMAIN snapshots :
    LET s == snapshots[i]
        botId == s.array.botId
    IN /\ s.at = nops =>
            /\ {s.array.items[k].name : k \in DOMAIN s.array.items} = VisibleNames(botId)
            /\ \A k \in DOMAIN s.array.items :
                 s.array.items[k] = VisibleTool(botId, s.array.items[k].name)
       /\ \A k, l \in DOMAIN s.array.items :
            k /= l => s.array.items[k].name /= s.array.items[l].name
       /\ itemsOf(s.array) = s.returned
       /\ \A j \in DOMAIN snapshots :
            (snapshots[j].at = s.at /\ snapshots[j].array.botId = botId) =>
              itemsOf(snapshots[j].array) = itemsOf(s.array)

\* two listings for A of two tools each, taken on the same registry state,
\* are still held after the registry has changed what A can see
C24_Witness ==
  /\ Len(snapshots) = 2
  /\ snapshots[1].array.botId = "A"
  /\ snapshots[2].array.botId = "A"
  /\ snapshots[1].at = snapshots[2].at
  /\ snapshots[1].at < nops
  /\ Len(snapshots[1].array.items) = 2
  /\ \E k \in 1..2 : snapshots[1].array.items[k].impl = "custom"
  /\ itemsOf(snapshots[1].array) /= getToolsForBot("A")

\* C25: unregister(name) returns true exactly when the global map held name,
\* unregisterForBot(A, name) exactly when A's private map held it (false for
\* an agent that has no private map), and each removal leaves every other
\* scope's and every other name's entry in place.
C25_RemovalReturnsWhetherHeld ==
  /\ [](registered = HistoryOf(globalTools, botTools))
  /\ [][/\ \A n \in ToolNames :
             unregister(n) => (deleted' <=> registered[GlobalScope][n] /= NoTool)
        /\ \A b \in BotIds, n \in ToolNames :
             unregisterForBot(b, n) =>
               /\ deleted' <=> registered[b][n] /= NoTool
               /\ b \notin DOMAIN botTools => ~deleted']_vars

\* a removal returned true, and a name is held for A alone while B has no
\* private map
C25_Witness ==
  /\ deleted
  /\ "B" \notin DOMAIN botTools
  /\ \E n \in ToolNames :
       /\ ~MapHas(globalTools, n)
       /\ "A" \in DOMAIN botTools
       /\ MapHas(botTools["A"], n)

(***************************************************************************)
(* Claims about the number of rounds in one chat turn.                     *)
(***************************************************************************)
\* the requests of the execute calls started so far
RequestsOf(ss) == [i \in 1..Len(ss) |-> ss[i].request]

\* C26: one chat turn issues at most two provider requests and starts
\* executeMany at most once; the response to the second request ends the
\* turn: tool calls it holds are not executed and no third request follows.
C26_AtMostTwoRequests ==
  /\ [](/\ Len(sent) <= 2
        /\ second /= NoResponse => (pc = "done" /\ Len(sent) = 2)
        /\ Len(slots) > 0 => RequestsOf(slots) = toolCallsOf(first))
  /\ [][/\ Len(slots) > 0 => RequestsOf(slots') = RequestsOf(slots)
        /\ second' /= second =>
             /\ slots' = slots
             /\ sent' = sent
             /\ reads' = reads
             /\ pc' = "done"]_vars

\* a turn ended on a second response that asks for a tool again
C26_Witness ==
  /\ pc = "done"
  /\ returned.kind = "chat"
  /\ Len(sent) = 2
  /\ Len(ToolBlocks(second)) > 0
  /\ Len(slots) = Len(ToolBlocks(first))

(***************************************************************************)
(* Claims about document processing.                                       *)
(***************************************************************************)
\* the requests whose handler got past the status check
Processing == {r \in 1..MaxRequests : documents.requests[r].pc \in {"update", "extract", "save"}
                 \/ (documents.requests[r].pc = "done"
                       /\ documents.requests[r].document = "pending")}

\* C28: under every interleaving of concurrent process requests for one
\* document, at most one request gets past the status check and processes
\* the document; every other one is answered "Document is already <status>"
\* and saves no chunks.
C28_ProcessedAtMostOnce ==
  documents.exists =>
    /\ Cardinality(Processing) <= 1
    /\ documents.chunks <= 1
    /\ \A r \in 1..MaxRequests :
         (documents.requests[r].pc = "done" /\ r \notin Processing) =>
           /\ documents.requests[r].res.code = 400
           /\ documents.requests[r].document /= "pending"
           /\ documents.requests[r].res.body =
                "Document is already " \o documents.requests[r].document

(***************************************************************************)
(* Claims about chunkText.                                                 *)
(***************************************************************************)
\* C29: every chunk chunkText produces has at most maxChunkSize characters,
\* also when a sentence end ". " sits at index maxChunkSize of the chunk
\* being split.
C29_ChunksWithinMaxSize ==
  \A i \in DOMAIN chunker.chunks :
    Len(chunker.chunks[i]) <= chunker.options.maxChunkSize

\* C30: every iteration of the loop that splits an over-long chunk leaves a
\* strictly shorter current chunk, so the loop ends.
C30_SplitShortensRemainder ==
  [][chunker.pc = "while" => Len(chunker'.currentChunk) < Len(chunker.currentChunk)]_vars

====
